---- MODULE Spec2Model ----
(***************************************************************************)
(* Model of the brave_search MCP server                                    *)
(* (servers/brave_search/brave_search_mcp/main.py and src/models.py).      *)
(*                                                                         *)
(* A tool invocation is a one-shot pipeline with a single suspension       *)
(* point, the await on client.get.  Each tool is therefore two actions:    *)
(* the part of the handler before the network wait and the part after it.  *)
(* Python text is a TLA+ string, a JSON value is a tagged tuple, and a     *)
(* Python call either returns a value or raises an exception class.        *)
(***************************************************************************)
EXTENDS Integers, Sequences, FiniteSets, TLC

VARIABLES
    pc,                 \* "idle", "search_wait", "fetch_wait", "done"
    call,               \* the invocation in progress: the tool and its arguments
    sent,               \* the HTTP GETs issued by this invocation
    redirects,          \* the redirect targets the upstream answered with
    outcome,            \* what the upstream answered to the client.get
    data,               \* what make_brave_request handed to brave_web_search
    formatted_results,  \* the blocks rendered so far (main.py:82)
    result,             \* what the tool handed to its caller
    tasks               \* the invocations in flight on the event loop, a frame each

vars == <<pc, call, sent, redirects, outcome, data, formatted_results, result,
          tasks>>

(***************************************************************************)
(* Bounds of the model.                                                    *)
(***************************************************************************)
MaxHits == 2        \* longest list of search hits the upstream sends
MaxOffset == 2      \* largest pagination offset a caller passes
MaxRedirects == 2   \* longest chain of redirects a website answers with

(***************************************************************************)
(* Python values.  Every value is a tuple whose first element is its tag:  *)
(* the result of a call is <<"return", v>> or <<"raise", class>>, a JSON   *)
(* value is <<type, payload>>, and a dict is the sequence of its           *)
(* <<key, value>> pairs in insertion order.                                *)
(***************************************************************************)
Ret(v) == <<"return", v>>
Raise(cls) == <<"raise", cls>>
None == <<"none", "">>
Kind(r) == r[1]
Value(r) == r[2]

JStr(s) == <<"str", s>>
JNum(n) == <<"num", n>>
JNull == <<"null", 0>>
JBool(b) == <<"bool", b>>
JArr(seq) == <<"arr", seq>>
JObj(pairs) == <<"obj", pairs>>
NotJson == <<"JSONDecodeError", 0>>
NotText == <<"UnicodeDecodeError", 0>>
TypeOf(j) == j[1]
Val(j) == j[2]

\* key in d, and d[key], for a dict d
HasKey(j, key) == \E i \in 1..Len(Val(j)) : Val(j)[i][1] = key
Get(j, key) ==
    Val(j)[CHOOSE i \in 1..Len(Val(j)) : Val(j)[i][1] = key][2]

Min(a, b) == IF a < b THEN a ELSE b

(***************************************************************************)
(* Python str operations.                                                  *)
(***************************************************************************)
Char(s, i) == SubSeq(s, i, i)

StartsWith(s, p) == Len(p) <= Len(s) /\ SubSeq(s, 1, Len(p)) = p

IsSubstring(p, s) ==
    \E i \in 0..(Len(s) - Len(p)) : SubSeq(s, i + 1, i + Len(p)) = p

\* s[:n]
Slice(s, n) == SubSeq(s, 1, Min(n, Len(s)))

\* s.find(c, start) with 1-based positions; 0 when c does not occur
Find(s, c, start) ==
    LET hits == {i \in start..Len(s) : Char(s, i) = c}
    IN  IF hits = {} THEN 0 ELSE CHOOSE i \in hits : \A j \in hits : i <= j

RECURSIVE LStrip(_, _)
LStrip(s, chars) ==
    IF s # "" /\ Head(s) \in chars THEN LStrip(Tail(s), chars) ELSE s

RECURSIVE RStrip(_, _)
RStrip(s, chars) ==
    IF s # "" /\ Char(s, Len(s)) \in chars
    THEN RStrip(SubSeq(s, 1, Len(s) - 1), chars)
    ELSE s

Whitespace == {" ", "\t", "\n", "\r"}

\* str.strip()
Strip(s) == RStrip(LStrip(s, Whitespace), Whitespace)

\* every occurrence of the characters removed (str.replace(b, ""))
RECURSIVE RemoveChars(_, _)
RemoveChars(s, chars) ==
    IF s = "" THEN ""
    ELSE IF Head(s) \in chars THEN RemoveChars(Tail(s), chars)
    ELSE Head(s) \o RemoveChars(Tail(s), chars)

UpperChars == "ABCDEFGHIJKLMNOPQRSTUVWXYZ"
LowerChars == "abcdefghijklmnopqrstuvwxyz"

LowerChar(c) ==
    LET i == Find(UpperChars, c, 1)
    IN  IF i = 0 THEN c ELSE Char(LowerChars, i)

\* str.lower()
RECURSIVE Lower(_)
Lower(s) == IF s = "" THEN "" ELSE LowerChar(Head(s)) \o Lower(Tail(s))

\* sep.join(parts)
RECURSIVE Join(_, _)
Join(parts, sep) ==
    IF Len(parts) = 0 THEN ""
    ELSE IF Len(parts) = 1 THEN parts[1]
    ELSE parts[1] \o sep \o Join(Tail(parts), sep)


(***************************************************************************)
(* urllib.parse.urlparse, as far as is_valid_url reads its result: the     *)
(* pair <<scheme, netloc>>, or the ValueError it raises.                   *)
(***************************************************************************)
CharsOf(s) == {Char(s, i) : i \in 1..Len(s)}

scheme_chars == CharsOf(LowerChars \o UpperChars \o "0123456789+-.")
AsciiAlpha == CharsOf(LowerChars \o UpperChars)
HexDigits == CharsOf("0123456789abcdefABCDEF")
C0ControlOrSpace == {" ", "\t", "\n", "\r"}
UnsafeUrlBytesToRemove == {"\t", "\r", "\n"}

\* the addresses ipaddress.ip_address accepts as IPv6, among those the model sends
IPv6Literals == {"::1"}

\* _check_bracketed_host: TRUE when it raises ValueError
BracketedHostInvalid(hostname) ==
    IF StartsWith(hostname, "v")
    THEN LET d == Find(hostname, ".", 1)
         IN  ~ (/\ d >= 3
                /\ \A k \in 2..(d - 1) : Char(hostname, k) \in HexDigits
                /\ Len(hostname) > d)
    ELSE hostname \notin IPv6Literals

\* _splitnetloc(url, 2): the netloc ends at the first of / ? # or at the end
NetlocEnd(url) ==
    LET delims == {i \in 3..Len(url) : Char(url, i) \in {"/", "?", "#"}}
    IN  IF delims = {} THEN Len(url) + 1
        ELSE CHOOSE i \in delims : \A j \in delims : i <= j

Scheme(parsed) == parsed[1]
Netloc(parsed) == parsed[2]

\* netloc.partition('[')[2].partition(']')[0]
Before(str, c) ==
    IF Find(str, c, 1) = 0 THEN str ELSE SubSeq(str, 1, Find(str, c, 1) - 1)

BracketedHost(netloc) ==
    Before(SubSeq(netloc, Find(netloc, "[", 1) + 1, Len(netloc)), "]")

\* urlsplit: the bracket checks on the netloc
CheckNetloc(scheme, netloc) ==
    IF (Find(netloc, "[", 1) > 0) # (Find(netloc, "]", 1) > 0)
    THEN Raise("ValueError")
    ELSE IF Find(netloc, "[", 1) > 0 /\ BracketedHostInvalid(BracketedHost(netloc))
    THEN Raise("ValueError")
    ELSE Ret(<<scheme, netloc>>)

\* urlsplit: the netloc is what follows a leading //
SplitNetloc(scheme, rest) ==
    IF Slice(rest, 2) = "//"
    THEN CheckNetloc(scheme, SubSeq(rest, 3, NetlocEnd(rest) - 1))
    ELSE Ret(<<scheme, "">>)

\* urlsplit: the scheme is what precedes the first colon (at position i),
\* when it starts with a letter and holds scheme characters only
SplitScheme(url, i) ==
    IF /\ i > 1
       /\ Char(url, 1) \in AsciiAlpha
       /\ \A k \in 1..(i - 1) : Char(url, k) \in scheme_chars
    THEN SplitNetloc(Lower(SubSeq(url, 1, i - 1)), SubSeq(url, i + 1, Len(url)))
    ELSE SplitNetloc("", url)

\* urlsplit after the leading and the unsafe characters are removed
SplitCleaned(url) == SplitScheme(url, Find(url, ":", 1))

urlparse(url) ==
    SplitCleaned(RemoveChars(LStrip(url, C0ControlOrSpace), UnsafeUrlBytesToRemove))

\* what is_valid_url makes of the outcome of urlparse
Verdict(parsed, accepted) ==
    IF Kind(parsed) = "raise"
    THEN IF Value(parsed) \in {"ValueError", "TypeError"} THEN Ret(FALSE) ELSE parsed
    ELSE Ret(accepted)

SchemeIsHttp(parsed) ==
    Kind(parsed) = "return" /\ Scheme(Value(parsed)) \in {"http", "https"}

HasNetloc(parsed) ==
    Kind(parsed) = "return" /\ Netloc(Value(parsed)) # ""

\* is_valid_url with the netloc test left out
is_valid_url_any_host(url) ==
    Verdict(urlparse(url), SchemeIsHttp(urlparse(url)))

\* main.py:242-259
is_valid_url(url) ==
    Verdict(urlparse(url), SchemeIsHttp(urlparse(url)) /\ HasNetloc(urlparse(url)))

(***************************************************************************)
(* WebSearchRequest (pydantic) and the request URL of brave_web_search.    *)
(* The validated request is <<q, count, offset, search_lang>>.             *)
(***************************************************************************)
MAX_RESULTS_PER_REQUEST == 20
BRAVE_API_BASE == "https://api.search.brave.com/res/v1"

\* WebSearchRequest without the upper limit on count
WebSearchRequest_no_le(q, count, offset) ==
    IF Strip(q) = "" \/ count < 1 \/ offset < 0
    THEN Raise("ValidationError")
    ELSE Ret(<<q, count, offset, "en">>)

\* models.py:6-18
WebSearchRequest(q, count, offset) ==
    IF \/ Strip(q) = ""
       \/ count < 1 \/ count > MAX_RESULTS_PER_REQUEST
       \/ offset < 0
    THEN Raise("ValidationError")
    ELSE Ret(<<q, count, offset, "en">>)

\* urllib.parse.quote_plus on the characters the model's queries use
QuotePlusChar(c) ==
    CASE c = " " -> "+"
      [] c = "\t" -> "%09"
      [] c = "\n" -> "%0A"
      [] c = "\r" -> "%0D"
      [] OTHER -> c

RECURSIVE quote_plus(_)
quote_plus(s) == IF s = "" THEN "" ELSE QuotePlusChar(Head(s)) \o quote_plus(Tail(s))

\* urlencode(request.model_dump(exclude_none=True))
urlencode(params) ==
    "q=" \o quote_plus(params[1])
        \o "&count=" \o ToString(params[2])
        \o "&offset=" \o ToString(params[3])
        \o "&search_lang=" \o quote_plus(params[4])

SearchUrl(params) == BRAVE_API_BASE \o "/web/search?" \o urlencode(params)

(***************************************************************************)
(* Python operations on parsed JSON (dict, list, str, int, None).          *)
(***************************************************************************)
ErrorDict(message) == JObj(<< <<"error", JStr(message)>> >>)

RECURSIVE PyRepr(_)
ItemRepr(pair) == "'" \o pair[1] \o "': " \o PyRepr(pair[2])

\* repr(x)
PyRepr(j) ==
    CASE TypeOf(j) = "str" -> "'" \o Val(j) \o "'"
      [] TypeOf(j) = "num" -> ToString(Val(j))
      [] TypeOf(j) = "null" -> "None"
      [] TypeOf(j) = "arr" ->
            "[" \o Join([i \in 1..Len(Val(j)) |-> PyRepr(Val(j)[i])], ", ") \o "]"
      [] TypeOf(j) = "obj" ->
            "{" \o Join([i \in 1..Len(Val(j)) |-> ItemRepr(Val(j)[i])], ", ") \o "}"

\* str(x), as an f-string renders a value
PyStr(j) == IF TypeOf(j) = "str" THEN Val(j) ELSE PyRepr(j)

\* the types on which "key in x" is defined; on the others it is a TypeError
IsContainer(x) == TypeOf(x) \in {"arr", "obj", "str"}

\* key in x
Contains(key, x) ==
    CASE TypeOf(x) = "obj" -> HasKey(x, key)
      [] TypeOf(x) = "arr" ->
            \E i \in 1..Len(Val(x)) :
                TypeOf(Val(x)[i]) = "str" /\ Val(Val(x)[i]) = key
      [] TypeOf(x) = "str" -> IsSubstring(key, Val(x))

\* not x
Falsy(x) ==
    CASE TypeOf(x) \in {"arr", "obj"} -> Len(Val(x)) = 0
      [] TypeOf(x) = "str" -> Val(x) = ""
      [] TypeOf(x) = "num" -> Val(x) = 0
      [] TypeOf(x) = "null" -> TRUE

(***************************************************************************)
(* What the upstream answers to a client.get:                              *)
(*   <<"response", status, reason phrase, body>>                           *)
(*   <<"timeout", whether the exception carries its request>>              *)
(*   <<"request_error", class>>   another httpx.RequestError               *)
(*   <<"exception", class>>       any other exception                      *)
(* The body of a search response is <<text, what response.json() gives>>,  *)
(* the body of a fetched page is the document html.parser builds.          *)
(***************************************************************************)
OutcomeType(o) == o[1]
Status(o) == o[2]
Reason(o) == o[3]
Body(o) == o[4]
BodyText(o) == o[4][1]
BodyJson(o) == o[4][2]
RequestSet(o) == o[2]
ExcClass(o) == o[2]

\* response.is_success, the test of raise_for_status
is_success(status) == 200 <= status /\ status <= 299

(***************************************************************************)
(* make_brave_request after the await on client.get (main.py:192-239).     *)
(***************************************************************************)
\* the else branch of the HTTPStatusError handler (main.py:218-227)
client_error(o) ==
    LET json == BodyJson(o)
    IN  IF TypeOf(json) = "UnicodeDecodeError" THEN Raise("UnicodeDecodeError")
        ELSE IF TypeOf(json) \notin {"JSONDecodeError", "obj"}
        THEN Raise("AttributeError")
        ELSE LET message == IF TypeOf(json) = "obj" /\ HasKey(json, "message")
                            THEN Get(json, "message")
                            ELSE JStr(BodyText(o))
             IN  IF TypeOf(message) \notin {"arr", "str"} THEN Raise("TypeError")
                 ELSE Ret(ErrorDict("API client error: " \o ToString(Status(o))
                              \o " - "
                              \o PyStr(<<TypeOf(message), Slice(Val(message), 100)>>)))

\* the HTTPStatusError handler with the 403 test left out
http_status_error_no_403(o) ==
    IF Status(o) = 401
    THEN Ret(ErrorDict("API authentication failed - check your BRAVE_API_KEY"))
    ELSE IF Status(o) = 429
    THEN Ret(ErrorDict("Rate limit exceeded - please wait before trying again"))
    ELSE IF Status(o) >= 500
    THEN Ret(ErrorDict("Brave API server error: " \o ToString(Status(o))
                           \o " " \o Reason(o)))
    ELSE client_error(o)

\* the HTTPStatusError handler with the 429 test left out
http_status_error_no_429(o) ==
    IF Status(o) = 401
    THEN Ret(ErrorDict("API authentication failed - check your BRAVE_API_KEY"))
    ELSE IF Status(o) = 403
    THEN Ret(ErrorDict("Permission denied - check API key or subscription plan"))
    ELSE IF Status(o) >= 500
    THEN Ret(ErrorDict("Brave API server error: " \o ToString(Status(o))
                           \o " " \o Reason(o)))
    ELSE client_error(o)

\* the HTTPStatusError handler (main.py:205-227)
http_status_error(o) ==
    IF Status(o) = 401
    THEN Ret(ErrorDict("API authentication failed - check your BRAVE_API_KEY"))
    ELSE IF Status(o) = 403
    THEN Ret(ErrorDict("Permission denied - check API key or subscription plan"))
    ELSE IF Status(o) = 429
    THEN Ret(ErrorDict("Rate limit exceeded - please wait before trying again"))
    ELSE IF Status(o) >= 500
    THEN Ret(ErrorDict("Brave API server error: " \o ToString(Status(o))
                           \o " " \o Reason(o)))
    ELSE client_error(o)

\* make_brave_request with except RequestError placed before except
\* TimeoutException: a timeout, itself a RequestError, is caught as one
make_brave_request_network_first(o) ==
    CASE OutcomeType(o) = "timeout" ->
            Ret(ErrorDict("Failed to connect to search API: ReadTimeout"))
      [] OutcomeType(o) = "request_error" ->
            Ret(ErrorDict("Failed to connect to search API: " \o ExcClass(o)))
      [] OutcomeType(o) = "exception" ->
            Ret(ErrorDict("An unexpected error occurred: " \o ExcClass(o)))
      [] OutcomeType(o) = "response" ->
            IF ~is_success(Status(o)) THEN http_status_error(o)
            ELSE IF TypeOf(BodyJson(o)) = "JSONDecodeError"
            THEN Ret(ErrorDict("Invalid JSON response received from API"))
            ELSE IF TypeOf(BodyJson(o)) = "UnicodeDecodeError"
            THEN Ret(ErrorDict("An unexpected error occurred: UnicodeDecodeError"))
            ELSE Ret(BodyJson(o))

\* main.py:189-239
make_brave_request(o) ==
    CASE OutcomeType(o) = "timeout" ->
            Ret(ErrorDict("Request to search API timed out"))
      [] OutcomeType(o) = "request_error" ->
            Ret(ErrorDict("Failed to connect to search API: " \o ExcClass(o)))
      [] OutcomeType(o) = "exception" ->
            Ret(ErrorDict("An unexpected error occurred: " \o ExcClass(o)))
      [] OutcomeType(o) = "response" ->
            IF ~is_success(Status(o)) THEN http_status_error(o)
            ELSE IF TypeOf(BodyJson(o)) = "JSONDecodeError"
            THEN Ret(ErrorDict("Invalid JSON response received from API"))
            ELSE IF TypeOf(BodyJson(o)) = "UnicodeDecodeError"
            THEN Ret(ErrorDict("An unexpected error occurred: UnicodeDecodeError"))
            ELSE Ret(BodyJson(o))

(***************************************************************************)
(* brave_web_search after make_brave_request returned (main.py:63-95).     *)
(* The outcome is <<result, blocks rendered>>.                             *)
(***************************************************************************)
NoResults == "No search results found for your query."
UnexpectedFormat == "Error: Unexpected response format from search API"

\* the defaults applied to the hit as a whole: a field is rendered with its
\* own value only when the hit has all three
Field_all_or_nothing(hit, key, default) ==
    IF HasKey(hit, "title") /\ HasKey(hit, "url") /\ HasKey(hit, "description")
    THEN PyStr(Get(hit, key))
    ELSE default

\* result.get(key, default), rendered
Field(hit, key, default) ==
    IF HasKey(hit, key) THEN PyStr(Get(hit, key)) ELSE default

\* the block of the earlier variant of the tool: the three field lines
\* without their indentation
Block_unindented(i, hit) ==
    "[Result " \o ToString(i) \o "]\n"
        \o "Title: " \o Field(hit, "title", "No title available") \o "\n"
        \o "URL: " \o Field(hit, "url", "No URL available") \o "\n"
        \o "Description: " \o Field(hit, "description", "No description available")

\* one rendered block (main.py:84-91)
Block(i, hit) ==
    "[Result " \o ToString(i) \o "]\n"
        \o "  Title: " \o Field(hit, "title", "No title available") \o "\n"
        \o "  URL: " \o Field(hit, "url", "No URL available") \o "\n"
        \o "  Description: " \o Field(hit, "description", "No description available")

\* enumerate(results, offset): the numbering that starts one too early
EnumerateFromOffset(offset) == offset

\* the start of enumerate(results, 1 + offset) (main.py:83)
EnumerateStart(offset) == 1 + offset

\* the loop of main.py:83-93; a hit that is no dict has no .get
RECURSIVE Render(_, _, _)
Render(items, i, acc) ==
    IF Len(items) = 0 THEN <<Ret(Join(acc, "\n\n")), acc>>
    ELSE IF TypeOf(Head(items)) # "obj" THEN <<Raise("AttributeError"), acc>>
    ELSE Render(Tail(items), i + 1, Append(acc, Block(i, Head(items))))

Only(r) == <<r, <<>> >>

\* main.py:74-95
format_results(results, offset) ==
    IF Falsy(results) THEN Only(Ret(NoResults))
    ELSE IF TypeOf(results) = "num" THEN Only(Raise("TypeError"))
    ELSE IF TypeOf(results) # "arr" THEN Only(Raise("AttributeError"))
    ELSE Render(Val(results), EnumerateStart(offset), <<>>)

\* main.py:63-95
brave_web_search_tail(d, offset) ==
    IF ~IsContainer(d) THEN Only(Raise("TypeError"))
    ELSE IF Contains("error", d)
    THEN IF TypeOf(d) = "obj"
         THEN Only(Ret("Search error: " \o PyStr(Get(d, "error"))))
         ELSE Only(Raise("TypeError"))
    ELSE IF ~Contains("web", d) THEN Only(Ret(UnexpectedFormat))
    ELSE IF TypeOf(d) # "obj" THEN Only(Raise("AttributeError"))
    ELSE IF ~IsContainer(Get(d, "web")) THEN Only(Raise("TypeError"))
    ELSE IF ~Contains("results", Get(d, "web")) THEN Only(Ret(UnexpectedFormat))
    ELSE IF TypeOf(Get(d, "web")) # "obj" THEN Only(Raise("TypeError"))
    ELSE format_results(Get(Get(d, "web"), "results"), offset)

(***************************************************************************)
(* fetch_website after the await on client.get (main.py:126-167).  The     *)
(* document html.parser builds is a sequence of nodes, <<"text", string>>  *)
(* or <<"elem", tag, children>>; a page whose processing fails is          *)
(* <<"fault", class>> in place of <<"doc", nodes>>.                        *)
(***************************************************************************)
Text(str) == <<"text", str>>
Elem(tag, kids) == <<"elem", tag, kids>>
NodeType(n) == n[1]
NodeString(n) == n[2]
Tag(n) == n[2]
Kids(n) == n[3]

\* the two tags the docstring of fetch_website names
StrippedTags_script_style == {"script", "style"}

\* main.py:131-133
StrippedTags == {"script", "style", "nav", "footer", "header", "aside"}
max_length == 10000

\* for element in soup([...]): element.decompose()
RECURSIVE Decompose(_)
Decompose(nodes) ==
    IF Len(nodes) = 0 THEN <<>>
    ELSE LET n == Head(nodes)
         IN  IF NodeType(n) = "text" THEN <<n>> \o Decompose(Tail(nodes))
             ELSE IF Tag(n) \in StrippedTags THEN Decompose(Tail(nodes))
             ELSE <<Elem(Tag(n), Decompose(Kids(n)))>> \o Decompose(Tail(nodes))

\* the text nodes of the tree in document order
RECURSIVE AllStrings(_)
AllStrings(nodes) ==
    IF Len(nodes) = 0 THEN <<>>
    ELSE LET n == Head(nodes)
         IN  IF NodeType(n) = "text"
             THEN <<NodeString(n)>> \o AllStrings(Tail(nodes))
             ELSE AllStrings(Kids(n)) \o AllStrings(Tail(nodes))

RECURSIVE StripEach(_)
StripEach(strs) ==
    IF Len(strs) = 0 THEN <<>>
    ELSE IF Strip(Head(strs)) = "" THEN StripEach(Tail(strs))
    ELSE <<Strip(Head(strs))>> \o StripEach(Tail(strs))

\* soup.get_text(separator="\n", strip=True)
get_text(nodes) == Join(StripEach(AllStrings(nodes)), "\n")

LineBreaks == {"\n", "\r"}

\* str.splitlines()
RECURSIVE splitlines(_)
splitlines(str) ==
    IF str = "" THEN <<>>
    ELSE LET breaks == {i \in 1..Len(str) : Char(str, i) \in LineBreaks}
         IN  IF breaks = {} THEN <<str>>
             ELSE LET b == CHOOSE i \in breaks : \A j \in breaks : i <= j
                      e == IF SubSeq(str, b, b + 1) = "\r\n" THEN b + 1 ELSE b
                  IN  <<SubSeq(str, 1, b - 1)>> \o splitlines(SubSeq(str, e + 1, Len(str)))

\* [line for line in text.splitlines() if line.strip()]
RECURSIVE NonBlank(_)
NonBlank(lines) ==
    IF Len(lines) = 0 THEN <<>>
    ELSE IF Strip(Head(lines)) = "" THEN NonBlank(Tail(lines))
    ELSE <<Head(lines)>> \o NonBlank(Tail(lines))

\* main.py:131-139
clean_text(nodes) == Join(NonBlank(splitlines(get_text(Decompose(nodes)))), "\n")

TruncationMarker ==
    "...\n[Content truncated due to length exceeding "
        \o ToString(max_length) \o " characters]"

\* the cut made at max_length itself: >= in place of >
truncate_at_limit(text) ==
    IF Len(text) >= max_length
    THEN SubSeq(text, 1, max_length) \o TruncationMarker
    ELSE text

\* main.py:141-149
truncate(text) ==
    IF Len(text) > max_length
    THEN SubSeq(text, 1, max_length) \o TruncationMarker
    ELSE text

(***************************************************************************)
(* An outbound request is <<url, headers, timeout, follow_redirects>>.     *)
(***************************************************************************)
Url(request) == request[1]
Headers(request) == request[2]
Timeout(request) == request[3]
FollowRedirects(request) == request[4]

\* main.py:126-167; request is the one client.get was called with
fetch_website_tail(o, request) ==
    CASE OutcomeType(o) = "timeout" ->
            IF RequestSet(o)
            THEN Ret("Error fetching website: Request timed out after "
                         \o Timeout(request) \o " seconds")
            ELSE Raise("RuntimeError")
      [] OutcomeType(o) = "request_error" ->
            Ret("Error connecting to website: " \o ExcClass(o))
      [] OutcomeType(o) = "exception" ->
            Ret("Error processing website content: " \o ExcClass(o))
      [] OutcomeType(o) = "response" ->
            IF ~is_success(Status(o))
            THEN Ret("Error fetching website: HTTP " \o ToString(Status(o))
                         \o " " \o Reason(o))
            ELSE IF Body(o)[1] = "fault"
            THEN Ret("Error processing website content: " \o Body(o)[2])
            ELSE Ret(truncate(clean_text(Body(o)[2])))

(***************************************************************************)
(* The part of each tool before the network wait.  Its outcome is          *)
(* <<TRUE, request>> when the tool goes on to client.get and               *)
(* <<FALSE, result>> when it ends there.                                   *)
(***************************************************************************)
BRAVE_API_KEY == "BRAVE_API_KEY"
HEADERS == << <<"Accept", "application/json">>,
              <<"X-Subscription-Token", BRAVE_API_KEY>> >>
FetchHeaders == << <<"User-Agent", "Mozilla/5.0 (compatible; MyFetcherBot/1.0)">> >>

\* what the client does with a 3xx answer that names a Location when the
\* request was made with follow_redirects=True (main.py:124): one more GET
follow_redirect(log, request, location) ==
    Append(log, <<location, Headers(request), Timeout(request),
                  FollowRedirects(request)>>)

\* a client.get issued a second time
client_get_twice(log, request) == Append(Append(log, request), request)

\* client.get: one outbound HTTP GET (main.py:192 and main.py:123-125)
client_get(log, request) == Append(log, request)

Proceed(request) == <<TRUE, request>>
Stop(r) == <<FALSE, r>>

\* main.py:54-61 and 189-192
brave_web_search_head(query, count, offset) ==
    LET request == WebSearchRequest(query, count, offset)
    IN  IF Kind(request) = "raise" THEN Stop(request)
        ELSE Proceed(<<SearchUrl(Value(request)), HEADERS, "10.0", FALSE>>)

\* fetch_website without the test of the url
fetch_website_head_unchecked(url) ==
    Proceed(<<url, FetchHeaders, "15.0", TRUE>>)

\* main.py:116-125
fetch_website_head(url) ==
    LET valid == is_valid_url(url)
    IN  IF Kind(valid) = "raise" THEN Stop(valid)
        ELSE IF ~Value(valid) THEN Stop(Ret("Invalid URL format"))
        ELSE Proceed(<<url, FetchHeaders, "15.0", TRUE>>)

(***************************************************************************)
(* The inputs of the model: the arguments callers pass and the answers     *)
(* the upstream gives.                                                     *)
(***************************************************************************)
Queries == {"", " ", " \t", "a b"}
Counts == {0, 1, MAX_RESULTS_PER_REQUEST, MAX_RESULTS_PER_REQUEST + 1}
Offsets == (-1)..MaxOffset

Urls ==
    {scheme \o sep \o host \o tail :
        scheme \in {"", "http", "https", "HTTP", "ftp"},
        sep \in {"", ":", "://"},
        host \in {"", "a.io", "[", "[::1]"},
        tail \in {"", "/p"}}
    \cup {"not-a-valid-url", "https://example.com", " http://a.io",
          "ht\ttp://a.io", "http://[a]", "http://[v1.x]", "http://?q",
          "http:/a.io", "//a.io", "1http://a.io"}

RECURSIVE Repeat(_, _)
Repeat(str, n) ==
    IF n = 0 THEN ""
    ELSE IF n % 2 = 0 THEN LET half == Repeat(str, n \div 2) IN half \o half
    ELSE str \o Repeat(str, n - 1)

\* the text of a JSON value on the wire
RECURSIVE json_dumps(_)
ItemDump(pair) == "\"" \o pair[1] \o "\": " \o json_dumps(pair[2])

json_dumps(j) ==
    CASE TypeOf(j) = "str" -> "\"" \o Val(j) \o "\""
      [] TypeOf(j) = "num" -> ToString(Val(j))
      [] TypeOf(j) = "null" -> "null"
      [] TypeOf(j) = "arr" ->
            "[" \o Join([i \in 1..Len(Val(j)) |-> json_dumps(Val(j)[i])], ", ") \o "]"
      [] TypeOf(j) = "obj" ->
            "{" \o Join([i \in 1..Len(Val(j)) |-> ItemDump(Val(j)[i])], ", ") \o "}"

\* a body is <<text, what response.json() gives>>
JsonBody(j) == <<json_dumps(j), j>>

HitVariants == <<
    JObj(<< <<"title", JStr("Cats")>>, <<"url", JStr("https://a.io/1")>>,
            <<"description", JStr("About cats")>> >>),
    JObj(<< <<"url", JStr("https://a.io/2")>>,
            <<"description", JStr("No title here")>> >>),
    JObj(<< <<"title", JStr("Dogs")>>, <<"description", JStr("No url here")>> >>),
    JObj(<< <<"title", JStr("Birds")>>, <<"url", JStr("https://a.io/4")>>,
            <<"age", JNum(3)>> >>),
    JObj(<<>>),
    JStr("not a dict") >>

\* the lists of at most MaxHits hits, as choices of variants
HitChoices == UNION {[1..n -> 1..Len(HitVariants)] : n \in 0..MaxHits}

WebResults(results) == JObj(<< <<"web", JObj(<< <<"results", results>> >>)>> >>)

HitsBody(choice) ==
    JsonBody(WebResults(JArr([i \in 1..Len(choice) |-> HitVariants[choice[i]]])))

LongMessage == Repeat("0123456789", 15)

Bodies == <<
    <<"<html>Bad Gateway</html>", NotJson>>,
    <<"", NotJson>>,
    <<Repeat("x", 150), NotJson>>,
    JsonBody(JArr(<<>>)),
    JsonBody(JNull),
    JsonBody(JNum(7)),
    JsonBody(JStr("error")),
    JsonBody(JArr(<<JStr("error")>>)),
    JsonBody(JArr(<<JStr("web")>>)),
    JsonBody(JObj(<<>>)),
    JsonBody(JObj(<< <<"message", JStr("quota exceeded")>> >>)),
    JsonBody(JObj(<< <<"message", JStr(LongMessage)>> >>)),
    JsonBody(JObj(<< <<"message", JNum(5)>> >>)),
    JsonBody(JObj(<< <<"message", JArr(<<JStr("a")>>)>> >>)),
    JsonBody(JObj(<< <<"message", JArr(<<JStr(LongMessage)>>)>> >>)),
    JsonBody(JObj(<< <<"detail", JStr("no message field")>> >>)),
    JsonBody(JObj(<< <<"error", JStr("boom")>> >>)),
    JsonBody(JObj(<< <<"error", JNull>> >>)),
    JsonBody(JObj(<< <<"error", JStr("x")>>,
                     <<"web", JObj(<< <<"results", JArr(<<>>)>> >>)>> >>)),
    JsonBody(JObj(<< <<"error", JStr("x")>>,
                     <<"web", JObj(<< <<"results", JArr(<<HitVariants[1]>>)>> >>)>> >>)),
    JsonBody(JObj(<< <<"web", JNull>> >>)),
    JsonBody(JObj(<< <<"web", JArr(<<>>)>> >>)),
    JsonBody(JObj(<< <<"web", JStr("results")>> >>)),
    JsonBody(JObj(<< <<"web", JObj(<<>>)>> >>)),
    JsonBody(WebResults(JNull)),
    JsonBody(WebResults(JStr("abc"))),
    JsonBody(WebResults(JNum(3))),
    <<"?", NotText>> >>

StatusCodes == {200, 204, 299, 300, 301, 304} \cup 400..599
Reasons == {"", "Oops"}
RequestErrors == {"ConnectError", "ReadError", "TooManyRedirects"}
OtherExceptions == {"InvalidURL"}

Response(status, reason, body) == <<"response", status, reason, body>>
TimeoutException(request_set) == <<"timeout", request_set>>
RequestError(cls) == <<"request_error", cls>>
OtherException(cls) == <<"exception", cls>>

Documents == <<
    <<Text("Hello")>>,
    <<>>,
    <<Text(" \n ")>>,
    <<Elem("html", <<
        Elem("head", <<Elem("title", <<Text("Test Page")>>),
                       Elem("style", <<Text("body { font-family: Arial; }")>>)>>),
        Elem("body", <<Elem("h1", <<Text("Test Page Heading")>>),
                       Elem("p", <<Text("This is a paragraph.")>>),
                       Elem("script", <<Text("console.log(1);")>>)>>)>>)>>,
    <<Elem("div", <<Elem("nav", <<Text("menu"), Elem("p", <<Text("deep")>>)>>),
                    Text("  body text  ")>>)>>,
    <<Elem("p", <<Text("first \n\n second\r\nthird")>>)>>,
    <<Elem("p", <<Text(Repeat("x", max_length))>>)>>,
    <<Elem("p", <<Text(Repeat("x", max_length + 1))>>)>>,
    <<Elem("p", <<Text(Repeat("word ", 2010))>>), Elem("footer", <<Text("(c)")>>)>>,
    <<Elem("div", <<
        Elem("section", <<
            Elem("aside", <<Elem("header", <<Text("banner"),
                                             Elem("script", <<Text("track()")>>)>>),
                            Text("side note")>>),
            Elem("p", <<Text("kept "), Elem("b", <<Text("bold")>>)>>)>>),
        Elem("header", <<Text("top")>>),
        Elem("footer", <<Elem("div", <<Text("legal")>>)>>)>>)>> >>

ParseFaults == {"RecursionError"}
Locations == {"https://b.io/", "http://a.io/next"}
FetchStatusCodes == {200, 301, 404, 500}

(***************************************************************************)
(* The state machine: one invocation at a time, from the call to the       *)
(* result handed back.                                                     *)
(***************************************************************************)
NoCall == <<"none">>
Tool(c) == c[1]
QueryOf(c) == c[2]
CountOf(c) == c[3]
OffsetOf(c) == c[4]
UrlOf(c) == c[2]

Init ==
    /\ pc = "idle"
    /\ call = NoCall
    /\ sent = <<>>
    /\ redirects = <<>>
    /\ outcome = None
    /\ data = None
    /\ formatted_results = <<>>
    /\ result = None
    /\ tasks = <<>>

\* brave_web_search up to the await on client.get
CallSearch(query, count, offset) ==
    /\ pc = "idle"
    /\ call' = <<"search", query, count, offset>>
    /\ LET head == brave_web_search_head(query, count, offset)
       IN  IF head[1]
           THEN /\ sent' = client_get(sent, head[2])
                /\ pc' = "search_wait"
                /\ result' = None
           ELSE /\ sent' = sent
                /\ pc' = "done"
                /\ result' = head[2]
    /\ UNCHANGED <<tasks, redirects, outcome, data, formatted_results>>

\* the rest of make_brave_request and of brave_web_search
FinishSearch(o) ==
    /\ pc = "search_wait"
    /\ outcome' = o
    /\ LET d == make_brave_request(o)
       IN  /\ data' = d
           /\ IF Kind(d) = "raise"
              THEN /\ result' = d
                   /\ formatted_results' = <<>>
              ELSE LET tail == brave_web_search_tail(Value(d), OffsetOf(call))
                   IN  /\ result' = tail[1]
                       /\ formatted_results' = tail[2]
    /\ pc' = "done"
    /\ UNCHANGED <<tasks, call, sent, redirects>>

\* the search provider answers with a status and a body
SearchResponse ==
    /\ pc = "search_wait"
    /\ \/ \E status \in StatusCodes, reason \in Reasons, b \in 1..Len(Bodies) :
             FinishSearch(Response(status, reason, Bodies[b]))
       \/ \E reason \in Reasons, choice \in HitChoices :
             FinishSearch(Response(200, reason, HitsBody(choice)))

\* client.get raises instead of returning a response
SearchFailure ==
    /\ pc = "search_wait"
    /\ \/ \E set \in BOOLEAN : FinishSearch(TimeoutException(set))
       \/ \E cls \in RequestErrors : FinishSearch(RequestError(cls))
       \/ \E cls \in OtherExceptions : FinishSearch(OtherException(cls))

\* fetch_website up to the await on client.get
CallFetch(url) ==
    /\ pc = "idle"
    /\ call' = <<"fetch", url>>
    /\ LET head == fetch_website_head(url)
       IN  IF head[1]
           THEN /\ sent' = client_get(sent, head[2])
                /\ pc' = "fetch_wait"
                /\ result' = None
           ELSE /\ sent' = sent
                /\ pc' = "done"
                /\ result' = head[2]
    /\ UNCHANGED <<tasks, redirects, outcome, data, formatted_results>>

\* the rest of fetch_website
FinishFetch(o) ==
    /\ pc = "fetch_wait"
    /\ outcome' = o
    /\ result' = fetch_website_tail(o, sent[Len(sent)])
    /\ pc' = "done"
    /\ UNCHANGED <<tasks, call, sent, redirects, data, formatted_results>>

\* the website answers with a status and a document
FetchResponse ==
    /\ pc = "fetch_wait"
    /\ \/ \E status \in FetchStatusCodes, reason \in Reasons, d \in 1..Len(Documents) :
             FinishFetch(Response(status, reason, <<"doc", Documents[d]>>))
       \/ \E reason \in Reasons, cls \in ParseFaults :
             FinishFetch(Response(200, reason, <<"fault", cls>>))

\* client.get raises instead of returning a response
FetchFailure ==
    /\ pc = "fetch_wait"
    /\ \/ \E set \in BOOLEAN : FinishFetch(TimeoutException(set))
       \/ \E cls \in RequestErrors : FinishFetch(RequestError(cls))
       \/ \E cls \in OtherExceptions : FinishFetch(OtherException(cls))

\* the upstream answers 3xx with a Location and the client, asked to follow
\* redirects, issues the next GET without returning to the tool
FollowRedirect(location) ==
    /\ pc \in {"search_wait", "fetch_wait"}
    /\ FollowRedirects(sent[Len(sent)])
    /\ Len(redirects) < MaxRedirects
    /\ redirects' = Append(redirects, location)
    /\ sent' = follow_redirect(sent, sent[Len(sent)], location)
    /\ UNCHANGED <<tasks, pc, call, outcome, data, formatted_results, result>>

\* the result is handed to the caller and the next invocation may start
Return ==
    /\ pc = "done"
    /\ pc' = "idle"
    /\ call' = NoCall
    /\ sent' = <<>>
    /\ redirects' = <<>>
    /\ outcome' = None
    /\ data' = None
    /\ formatted_results' = <<>>
    /\ result' = None
    /\ UNCHANGED tasks

Next ==
    \/ \E query \in Queries, count \in Counts, offset \in Offsets :
          CallSearch(query, count, offset)
    \/ SearchResponse
    \/ SearchFailure
    \/ \E url \in Urls : CallFetch(url)
    \/ FetchResponse
    \/ FetchFailure
    \/ \E location \in Locations : FollowRedirect(location)
    \/ Return

Spec == Init /\ [][Next]_vars

(***************************************************************************)
(* Properties.                                                             *)
(***************************************************************************)
\* the invocation got past its input validation and reached client.get
Validated == pc \in {"search_wait", "fetch_wait"} \/ OutcomeType(outcome) # "none"

\* the outbound search call failed: transport failure, non-2xx status or
\* a 2xx body that is no JSON
FailedCall ==
    \/ OutcomeType(outcome) \in {"timeout", "request_error", "exception"}
    \/ /\ OutcomeType(outcome) = "response"
       /\ \/ Status(outcome) \notin 200..299
          \/ TypeOf(BodyJson(outcome)) \in {"JSONDecodeError", "UnicodeDecodeError"}

\* C1: whatever the arguments and whatever the upstream answers, a finished
\* brave_web_search has handed its caller a string and raised nothing.
C1_SearchNeverRaises ==
    (pc = "done" /\ Tool(call) = "search") => Kind(result) = "return"

C3_ClassificationTotal ==
    (/\ pc = "done" /\ Tool(call) = "search"
     /\ OutcomeType(outcome) = "response"
     /\ Status(outcome) \in 400..599)
    => IF Kind(data) # "return" THEN FALSE
       ELSE IF TypeOf(Value(data)) # "obj" THEN FALSE
       ELSE IF ~HasKey(Value(data), "error") THEN FALSE
       ELSE LET status == Status(outcome)
                message == Val(Get(Value(data), "error"))
            IN  CASE status = 401 ->
                        message = "API authentication failed - check your BRAVE_API_KEY"
                  [] status = 403 ->
                        message = "Permission denied - check API key or subscription plan"
                  [] status = 429 ->
                        message = "Rate limit exceeded - please wait before trying again"
                  [] status >= 500 ->
                        StartsWith(message, "Brave API server error: "
                                                \o ToString(status) \o " ")
                  [] OTHER ->
                        StartsWith(message, "API client error: "
                                                \o ToString(status) \o " - ")

\* C4: for every failed outbound search call make_brave_request returns a
\* dictionary whose only key is 'error', holding a message, and raises
\* nothing.
C4_ClassifierNeverRaises ==
    (pc = "done" /\ Tool(call) = "search" /\ FailedCall)
    => IF Kind(data) # "return" THEN FALSE
       ELSE IF TypeOf(Value(data)) # "obj" THEN FALSE
       ELSE /\ Len(Val(Value(data))) = 1
            /\ HasKey(Value(data), "error")
            /\ TypeOf(Get(Value(data), "error")) = "str"
            /\ Val(Get(Value(data), "error")) # ""

C6_ValidationBeforeNetwork ==
    Tool(call) = "search" =>
        LET q == QueryOf(call)
            invalid == \/ \A i \in 1..Len(q) : Char(q, i) \in Whitespace
                       \/ CountOf(call) \notin 1..20
                       \/ OffsetOf(call) < 0
        IN  IF invalid
            THEN /\ sent = <<>>
                 /\ pc = "done"
                 /\ OutcomeType(outcome) = "none"
                 /\ Kind(result) = "raise"
            ELSE /\ Len(sent) >= 1
                 /\ StartsWith(Url(sent[1]), BRAVE_API_BASE \o "/web/search?")

\* C6 witness: a count of 21 rejected without a request
C6_Witness ==
    /\ pc = "done" /\ Tool(call) = "search"
    /\ QueryOf(call) = "a b" /\ CountOf(call) = 21 /\ OffsetOf(call) = 0
    /\ sent = <<>>

\* C7: for a url is_valid_url rejects, fetch_website returns exactly
\* "Invalid URL format" and issues no request; it issues its request, for
\* that very url, only when is_valid_url accepts the url.
C7_InvalidUrlNoRequest ==
    Tool(call) = "fetch" =>
        IF is_valid_url(UrlOf(call)) = Ret(TRUE)
        THEN Len(sent) >= 1 /\ Url(sent[1]) = UrlOf(call)
        ELSE /\ sent = <<>>
             /\ pc = "done"
             /\ result = Ret("Invalid URL format")

\* C7 witness: the rejected url of the tests
C7_Witness ==
    /\ pc = "done" /\ Tool(call) = "fetch"
    /\ UrlOf(call) = "not-a-valid-url"
    /\ result = Ret("Invalid URL format") /\ sent = <<>>

\* C8: is_valid_url returns, without raising, TRUE exactly when the url
\* parses into a scheme that is http or https and a non-empty netloc; the
\* empty string, an ftp url, a string with no scheme, a scheme alone and an
\* unparseable string are all rejected.
C8_ValidIffHttpAndHost ==
    Tool(call) = "fetch" =>
        LET u == UrlOf(call)
            parsed == urlparse(u)
            expected == IF Kind(parsed) # "return" THEN FALSE
                        ELSE /\ Scheme(Value(parsed)) \in {"http", "https"}
                             /\ Netloc(Value(parsed)) # ""
        IN  /\ is_valid_url(u) = Ret(expected)
            /\ expected <=> (sent # <<>>)
            /\ u \in {"", "ftp://a.io", "not-a-valid-url", "a.io", "http:",
                      "http://", "https://", "http://["}
                  => is_valid_url(u) = Ret(FALSE)
            /\ u \in {"https://example.com", "http://a.io/p"}
                  => is_valid_url(u) = Ret(TRUE)

\* C8 witness: a url urlparse refuses, answered with the rejection
C8_Witness ==
    /\ pc = "done" /\ Tool(call) = "fetch"
    /\ UrlOf(call) = "http://["
    /\ Kind(urlparse(UrlOf(call))) = "raise"
    /\ result = Ret("Invalid URL format")

\* C9: the k-th block rendered (k from 0) carries the ordinal
\* k + offset + 1.
C9_OrdinalIsOffsetPlusIndex ==
    (pc = "done" /\ Tool(call) = "search") =>
        \A k \in 0..(Len(formatted_results) - 1) :
            StartsWith(formatted_results[k + 1],
                       "[Result " \o ToString(k + OffsetOf(call) + 1) \o "]\n")

\* C9 witness: two hits rendered at offset 2
C9_Witness ==
    /\ pc = "done" /\ Tool(call) = "search"
    /\ OffsetOf(call) = 2
    /\ Len(formatted_results) = 2
    /\ Kind(result) = "return"

\* C10: a successful response whose results list is empty gives exactly the
\* no-results sentinel; no failed call gives it; and no error string the
\* tool returns starts with it or equals it.
C10_EmptyListGivesSentinel ==
    (pc = "done" /\ Tool(call) = "search" /\ Validated) =>
        /\ (/\ ~FailedCall
            /\ TypeOf(BodyJson(outcome)) = "obj"
            /\ HasKey(BodyJson(outcome), "web")
            /\ TypeOf(Get(BodyJson(outcome), "web")) = "obj"
            /\ HasKey(Get(BodyJson(outcome), "web"), "results")
            /\ TypeOf(Get(Get(BodyJson(outcome), "web"), "results")) = "arr"
            /\ Len(Val(Get(Get(BodyJson(outcome), "web"), "results"))) = 0)
           => result = Ret(NoResults)
        /\ FailedCall => result # Ret(NoResults)
        /\ (/\ Kind(result) = "return"
            /\ \/ StartsWith(Value(result), "Search error: ")
               \/ StartsWith(Value(result), "Error: "))
           => ~StartsWith(Value(result), NoResults)

\* the upstream answered 2xx with a body the tool takes for a success and
\* whose web.results is a list of JSON objects: the hits of this invocation
GotHits ==
    /\ pc = "done" /\ Tool(call) = "search"
    /\ OutcomeType(outcome) = "response"
    /\ Status(outcome) \in 200..299
    /\ TypeOf(BodyJson(outcome)) = "obj"
    /\ ~HasKey(BodyJson(outcome), "error")
    /\ HasKey(BodyJson(outcome), "web")
    /\ TypeOf(Get(BodyJson(outcome), "web")) = "obj"
    /\ HasKey(Get(BodyJson(outcome), "web"), "results")
    /\ TypeOf(Get(Get(BodyJson(outcome), "web"), "results")) = "arr"
    /\ \A i \in 1..Len(Val(Get(Get(BodyJson(outcome), "web"), "results"))) :
          TypeOf(Val(Get(Get(BodyJson(outcome), "web"), "results"))[i]) = "obj"

\* the hits, in upstream order
Hits == Val(Get(Get(BodyJson(outcome), "web"), "results"))

\* the text a block shows for a field: the hit's own value, or the default
Shown(hit, key, default) ==
    IF \E i \in 1..Len(Val(hit)) : Val(hit)[i][1] = key
    THEN LET v == Val(hit)[CHOOSE i \in 1..Len(Val(hit)) : Val(hit)[i][1] = key][2]
         IN  IF TypeOf(v) = "str" THEN Val(v) ELSE PyRepr(v)
    ELSE default

\* lines joined by single line breaks, and blocks joined by one blank line
RECURSIVE Lines(_)
Lines(seq) ==
    IF Len(seq) = 1 THEN seq[1] ELSE seq[1] \o "\n" \o Lines(Tail(seq))

RECURSIVE Paragraphs(_)
Paragraphs(seq) ==
    IF Len(seq) = 1 THEN seq[1] ELSE seq[1] \o "\n" \o "\n" \o Paragraphs(Tail(seq))

\* C11: for n >= 1 hits the output is exactly n blocks in upstream order,
\* each the four lines "[Result N]", "  Title: T", "  URL: U",
\* "  Description: D" of its hit, the blocks separated by exactly one blank
\* line and nothing before the first or after the last.
C11_BlocksAsTemplated ==
    (GotHits /\ Len(Hits) >= 1) =>
        /\ Len(formatted_results) = Len(Hits)
        /\ \A k \in 1..Len(Hits) :
              formatted_results[k] =
                  Lines(<< "[Result " \o ToString(OffsetOf(call) + k) \o "]",
                           "  Title: " \o Shown(Hits[k], "title", "No title available"),
                           "  URL: " \o Shown(Hits[k], "url", "No URL available"),
                           "  Description: "
                               \o Shown(Hits[k], "description", "No description available") >>)
        /\ result = Ret(Paragraphs(formatted_results))

\* C11 witness: two hits with all their fields, rendered at offset 0
C11_Witness ==
    /\ GotHits
    /\ OffsetOf(call) = 0
    /\ Hits = <<HitVariants[1], HitVariants[1]>>
    /\ Value(result) =
          "[Result 1]\n  Title: Cats\n  URL: https://a.io/1\n  Description: About cats"
              \o "\n\n"
              \o "[Result 2]\n  Title: Cats\n  URL: https://a.io/1\n  Description: About cats"

\* C12: for every hit, each of title, url and description that is absent
\* is rendered with its default and each that is present with its own
\* value, whatever the other two are; and hits with missing or unknown
\* fields never make the formatter raise.
C12_DefaultsPerField ==
    GotHits =>
        /\ Kind(result) = "return"
        /\ Len(formatted_results) = Len(Hits)
        /\ \A k \in 1..Len(Hits) :
              /\ IsSubstring("\n  Title: "
                                 \o (IF HasKey(Hits[k], "title")
                                     THEN PyStr(Get(Hits[k], "title"))
                                     ELSE "No title available")
                                 \o "\n  URL: ",
                             formatted_results[k])
              /\ IsSubstring("\n  URL: "
                                 \o (IF HasKey(Hits[k], "url")
                                     THEN PyStr(Get(Hits[k], "url"))
                                     ELSE "No URL available")
                                 \o "\n  Description: ",
                             formatted_results[k])
              /\ \E p \in 1..Len(formatted_results[k]) :
                    SubSeq(formatted_results[k], p, Len(formatted_results[k]))
                        = "\n  Description: "
                              \o (IF HasKey(Hits[k], "description")
                                  THEN PyStr(Get(Hits[k], "description"))
                                  ELSE "No description available")

\* C12 witness: a hit with no description and an unknown field next to a
\* hit with no field at all
C12_Witness ==
    /\ GotHits
    /\ Hits = <<HitVariants[4], HitVariants[5]>>
    /\ Kind(result) = "return"
    /\ IsSubstring("  Title: Birds\n  URL: https://a.io/4\n  Description: No description available",
                   formatted_results[1])
    /\ IsSubstring("  Title: No title available\n  URL: No URL available\n",
                   formatted_results[2])

\* the body of the answer has the nested structure web.results
HasWebResults ==
    /\ TypeOf(BodyJson(outcome)) = "obj"
    /\ HasKey(BodyJson(outcome), "web")
    /\ TypeOf(Get(BodyJson(outcome), "web")) = "obj"
    /\ HasKey(Get(BodyJson(outcome), "web"), "results")

\* C13: the result is chosen by exclusive cases in this order: a failed
\* call gives a string starting with "Search error: "; otherwise a body
\* without 'web' or without the nested 'results' gives exactly the
\* unexpected-format message; otherwise an empty results list gives the
\* no-results sentinel; otherwise the blocks are given.  A body that has
\* web.results is never reported as unexpected format.
C13_CasesInOrder ==
    (pc = "done" /\ Tool(call) = "search" /\ Validated) =>
        IF FailedCall
        THEN Kind(result) = "return" /\ StartsWith(Value(result), "Search error: ")
        ELSE IF ~HasWebResults
        THEN result = Ret(UnexpectedFormat)
        ELSE /\ result # Ret(UnexpectedFormat)
             /\ GotHits /\ Len(Hits) = 0 => result = Ret(NoResults)
             /\ GotHits /\ Len(Hits) >= 1
                   => Kind(result) = "return" /\ StartsWith(Value(result), "[Result ")

\* C14: when the search provider answers 429 the tool returns exactly
\* "Search error: Rate limit exceeded - please wait before trying again",
\* whatever the body of the answer and whatever the query, count and offset.
C14_RateLimitMessage ==
    (/\ pc = "done" /\ Tool(call) = "search"
     /\ OutcomeType(outcome) = "response"
     /\ Status(outcome) = 429)
    => result = Ret("Search error: Rate limit exceeded - please wait before trying again")

\* C14 witness: a 429 whose body is JSON but no object, at offset 2
C14_Witness ==
    /\ pc = "done" /\ Tool(call) = "search"
    /\ OutcomeType(outcome) = "response"
    /\ Status(outcome) = 429
    /\ BodyText(outcome) = "[]"
    /\ CountOf(call) = 20 /\ OffsetOf(call) = 2
    /\ Kind(result) = "return"

\* the website answered 2xx with a document that html.parser reads
GotDocument ==
    /\ pc = "done" /\ Tool(call) = "fetch"
    /\ OutcomeType(outcome) = "response"
    /\ Status(outcome) \in 200..299
    /\ Body(outcome)[1] = "doc"

\* C15: a cleaned text longer than 10000 characters is returned as its
\* first 10000 characters followed by the literal marker, 10000 plus the
\* length of the marker in all; a cleaned text of 10000 characters or fewer
\* is returned unchanged, with no marker.
C15_ExactCut ==
    GotDocument =>
        IF Len(clean_text(Body(outcome)[2])) > 10000
        THEN /\ result = Ret(SubSeq(clean_text(Body(outcome)[2]), 1, 10000)
                  \o "...\n[Content truncated due to length exceeding 10000 characters]")
             /\ Len(Value(result)) = 10000
                  + Len("...\n[Content truncated due to length exceeding 10000 characters]")
        ELSE /\ result = Ret(clean_text(Body(outcome)[2]))
             /\ ~IsSubstring("[Content truncated", Value(result))

\* C15 witness: a text one character over the limit, cut
C15_Witness ==
    /\ GotDocument
    /\ Len(clean_text(Body(outcome)[2])) = 10001
    /\ Len(Value(result)) = 10064
    /\ SubSeq(Value(result), 9999, 10004) = "xx...\n"

\* the text nodes of a tree that lie inside a script, style, nav, footer,
\* header or aside element (inside = TRUE) or outside every such element
RECURSIVE TextsOf(_, _, _)
TextsOf(nodes, within, inside) ==
    IF Len(nodes) = 0 THEN {}
    ELSE LET n == Head(nodes)
             rest == TextsOf(Tail(nodes), within, inside)
         IN  IF NodeType(n) = "text"
             THEN IF within = inside THEN {NodeString(n)} \cup rest ELSE rest
             ELSE TextsOf(Kids(n),
                          within \/ Tag(n) \in {"script", "style", "nav",
                                                "footer", "header", "aside"},
                          inside) \cup rest

\* the lines of a text node that are not blank, each without its padding
ShownLines(str) ==
    {Strip(splitlines(str)[i]) : i \in 1..Len(splitlines(str))} \ {""}

\* C16: no text that lies inside a script, style, nav, footer, header or
\* aside element, at any depth, occurs in the output of fetch_website, and
\* the text outside those elements is kept (when nothing is cut for length).
C16_StrippedTextGone ==
    GotDocument =>
        /\ \A s \in TextsOf(Body(outcome)[2], FALSE, TRUE) :
              \A line \in ShownLines(s) : ~IsSubstring(line, Value(result))
        /\ Len(clean_text(Body(outcome)[2])) <= 10000 =>
              \A s \in TextsOf(Body(outcome)[2], FALSE, FALSE) :
                  \A line \in ShownLines(s) : IsSubstring(line, Value(result))

\* C16 witness: a page with a script inside a header inside an aside, two
\* levels down, of which only the paragraph beside it comes out
C16_Witness ==
    /\ GotDocument
    /\ "track()" \in TextsOf(Body(outcome)[2], FALSE, TRUE)
    /\ "side note" \in TextsOf(Body(outcome)[2], FALSE, TRUE)
    /\ result = Ret("kept\nbold")

\* no line of the text is empty and none begins or ends with whitespace
NoPaddedLine(text) ==
    \/ text = ""
    \/ /\ Char(text, 1) \notin Whitespace
       /\ Char(text, Len(text)) \notin Whitespace
       /\ \A i \in 1..(Len(text) - 1) :
             /\ Char(text, i) = "\n" => Char(text, i + 1) \notin Whitespace
             /\ Char(text, i + 1) = "\n" => Char(text, i) \notin Whitespace

\* C17: the cleaned text of fetch_website, before it is cut for length, has
\* no empty line, no two newlines in a row and no line that begins or ends
\* with whitespace, also when one text node holds newlines with spaces
\* around them.
C17_LinesStripped ==
    GotDocument => NoPaddedLine(clean_text(Body(outcome)[2]))

\* a fetch that got as far as the network and did not end in a cleaned page
FetchFailed ==
    /\ pc = "done" /\ Tool(call) = "fetch"
    /\ outcome # None
    /\ ~GotDocument

TransportFailure ==
    /\ pc = "done" /\ Tool(call) = "search"
    /\ OutcomeType(outcome) \in {"timeout", "request_error"}

\* C19: a transport failure of the search call becomes a failure value and
\* is not raised: a timeout gives the error "Request to search API timed
\* out", every other transport error gives "Failed to connect to search
\* API: {cause}", and a timeout is never given the second form.
C19_TransportFailureConverted ==
    TransportFailure =>
        /\ Kind(data) = "return"
        /\ TypeOf(Value(data)) = "obj"
        /\ Get(Value(data), "error") =
              IF OutcomeType(outcome) = "timeout"
              THEN JStr("Request to search API timed out")
              ELSE JStr("Failed to connect to search API: " \o ExcClass(outcome))
        /\ result =
              IF OutcomeType(outcome) = "timeout"
              THEN Ret("Search error: Request to search API timed out")
              ELSE Ret("Search error: Failed to connect to search API: "
                           \o ExcClass(outcome))
        /\ OutcomeType(outcome) = "timeout" =>
              ~IsSubstring("Failed to connect", Value(result))

\* C19 witness: a timeout, reported as one
C19_Witness ==
    /\ TransportFailure
    /\ OutcomeType(outcome) = "timeout"
    /\ result = Ret("Search error: Request to search API timed out")

\* the search provider answered with a status that make_brave_request
\* reports as a client error, and the tool returned a string
ClientErrorReported ==
    /\ pc = "done" /\ Tool(call) = "search"
    /\ OutcomeType(outcome) = "response"
    /\ Status(outcome) \notin 200..299
    /\ Status(outcome) \notin {401, 403, 429}
    /\ Status(outcome) < 500
    /\ Kind(result) = "return"

\* C20: no error string handed to the caller holds more than 100 characters
\* of an upstream error body: for a client error the string is
\* "API client error: {status} - " (behind "Search error: ") followed by at
\* most 100 characters, whatever the length of the body.
C20_UpstreamCutAt100 ==
    ClientErrorReported =>
        /\ StartsWith(Value(result), "Search error: API client error: "
                                         \o ToString(Status(outcome)) \o " - ")
        /\ Len(Value(result)) <=
              Len("Search error: API client error: "
                      \o ToString(Status(outcome)) \o " - ") + 100


\* C27: a status is reported as a client error only when it lies in
\* 400..499 and as a server error only when it is 500 or above; no status
\* outside those ranges that reaches the classifier, such as a 3xx answer of
\* the search call, is labelled by a default branch.
C27_LabelledByRange ==
    (/\ pc = "done" /\ Tool(call) = "search"
     /\ OutcomeType(outcome) = "response"
     /\ Kind(result) = "return")
    => /\ StartsWith(Value(result), "Search error: API client error: ")
             => Status(outcome) \in 400..499
       /\ StartsWith(Value(result), "Search error: Brave API server error: ")
             => Status(outcome) >= 500

\* C28: brave_web_search reports "Search error: ..." if and only if the
\* outbound call failed (transport failure, status outside 2xx or a body
\* that is no JSON); a 2xx answer with a JSON body is never treated as a
\* failure, whatever its keys, a top-level 'error' key included.
C28_ErrorIffCallFailed ==
    (pc = "done" /\ Tool(call) = "search" /\ Validated /\ Kind(result) = "return")
    => (StartsWith(Value(result), "Search error: ") <=> FailedCall)


\* C29: every invocation of brave_web_search and fetch_website completes
\* with a result once the outbound call has delivered a response, failed or
\* timed out: there is no wait but the network wait, and when that wait
\* ends the invocation is at a return.
C29_WaitEndsInReturn ==
    [][(pc \in {"search_wait", "fetch_wait"} /\ pc' \notin {"search_wait", "fetch_wait"})
          => (pc' = "done" /\ Kind(result') = "return")]_vars


(***************************************************************************)
(* json.dumps and json.loads, for the strings the Slack tools return       *)
(* (server.py:66) and the tests parse back (test_server.py:60).  Strings   *)
(* are over printable ASCII, tab, newline and carriage return; numbers are *)
(* integers.                                                               *)
(***************************************************************************)
\* one character of a string, as json.dumps writes it
EscapeChar(c) ==
    CASE c = "\"" -> "\\\""
      [] c = "\\" -> "\\\\"
      [] c = "\n" -> "\\n"
      [] c = "\r" -> "\\r"
      [] c = "\t" -> "\\t"
      [] OTHER -> c

\* the string written with every character as it is: no escaping
encode_basestring_raw(str) == "\"" \o str \o "\""

\* every character of str escaped, the string taken by halves
RECURSIVE Escape(_)
Escape(str) ==
    IF Len(str) <= 1 THEN EscapeChar(str)
    ELSE Escape(SubSeq(str, 1, Len(str) \div 2))
             \o Escape(SubSeq(str, Len(str) \div 2 + 1, Len(str)))

\* json.encoder.encode_basestring_ascii
encode_basestring_ascii(str) == "\"" \o Escape(str) \o "\""

\* json.dumps(obj) with the default separators ", " and ": "
RECURSIVE dumps(_)
DumpItem(pair) == encode_basestring_ascii(pair[1]) \o ": " \o dumps(pair[2])

dumps(obj) ==
    CASE TypeOf(obj) = "str" -> encode_basestring_ascii(Val(obj))
      [] TypeOf(obj) = "num" -> ToString(Val(obj))
      [] TypeOf(obj) = "bool" -> IF Val(obj) THEN "true" ELSE "false"
      [] TypeOf(obj) = "null" -> "null"
      [] TypeOf(obj) = "arr" ->
            "[" \o Join([i \in 1..Len(Val(obj)) |-> dumps(Val(obj)[i])], ", ") \o "]"
      [] TypeOf(obj) = "obj" ->
            "{" \o Join([i \in 1..Len(Val(obj)) |-> DumpItem(Val(obj)[i])], ", ") \o "}"

\* A parse step gives <<value, index of the next character>>; the value is
\* NotJson when the text is no JSON there.
Parsed(v, next) == <<v, next>>
Failed == <<NotJson, 0>>
ParsedValue(p) == p[1]
NextIndex(p) == p[2]
IsFailed(p) == TypeOf(ParsedValue(p)) = "JSONDecodeError"

Digits == "0123456789"
IsDigit(c) == c # "" /\ IsSubstring(c, Digits)
DigitValue(c) == (CHOOSE i \in 1..10 : Char(Digits, i) = c) - 1

\* the character an escape stands for, "" when it is none
Unescape(c) ==
    CASE c = "\"" -> "\""
      [] c = "\\" -> "\\"
      [] c = "/" -> "/"
      [] c = "n" -> "\n"
      [] c = "r" -> "\r"
      [] c = "t" -> "\t"
      [] OTHER -> ""

\* json.decoder.scanstring: i is the index after the opening quote, acc the
\* characters read so far
RECURSIVE scanstring(_, _, _)

\* the first index from i on of a quote, a backslash or a control character
\* (json.decoder.STRINGCHUNK), Len(s) + 1 when there is none
ChunkEnd(s, i) ==
    IF \E j \in i..Len(s) : Char(s, j) \in {"\"", "\\", "\n", "\r", "\t"}
    THEN CHOOSE j \in i..Len(s) :
            /\ Char(s, j) \in {"\"", "\\", "\n", "\r", "\t"}
            /\ \A k \in i..(j - 1) : Char(s, k) \notin {"\"", "\\", "\n", "\r", "\t"}
    ELSE Len(s) + 1

\* the string read up to index j, where the chunk ended
ScanTerminator(s, j, acc) ==
    IF j > Len(s) THEN Failed
    ELSE IF Char(s, j) = "\"" THEN Parsed(JStr(acc), j + 1)
    ELSE IF Char(s, j) # "\\" THEN Failed
    ELSE IF j = Len(s) \/ Unescape(Char(s, j + 1)) = "" THEN Failed
    ELSE scanstring(s, j + 2, acc \o Unescape(Char(s, j + 1)))

scanstring(s, i, acc) ==
    ScanTerminator(s, ChunkEnd(s, i), acc \o SubSeq(s, i, ChunkEnd(s, i) - 1))

\* json.decoder.WHITESPACE.match
RECURSIVE SkipWhitespace(_, _)
SkipWhitespace(s, i) ==
    IF i <= Len(s) /\ Char(s, i) \in Whitespace THEN SkipWhitespace(s, i + 1) ELSE i

\* the digits of an integer from index i on
RECURSIVE ScanDigits(_, _, _)
ScanDigits(s, i, n) ==
    IF i <= Len(s) /\ IsDigit(Char(s, i))
    THEN ScanDigits(s, i + 1, 10 * n + DigitValue(Char(s, i)))
    ELSE Parsed(n, i)

ScanNumber(s, i) ==
    IF Char(s, i) = "-"
    THEN IF i < Len(s) /\ IsDigit(Char(s, i + 1))
         THEN Parsed(JNum(0 - ParsedValue(ScanDigits(s, i + 1, 0))),
                     NextIndex(ScanDigits(s, i + 1, 0)))
         ELSE Failed
    ELSE Parsed(JNum(ParsedValue(ScanDigits(s, i, 0))), NextIndex(ScanDigits(s, i, 0)))

ScanLiteral(s, i, word, v) ==
    IF SubSeq(s, i, Min(Len(s), i + Len(word) - 1)) = word
    THEN Parsed(v, i + Len(word)) ELSE Failed

\* json.scanner.py_make_scanner: the value that starts at index i
RECURSIVE scan_once(_, _)
RECURSIVE JSONArray(_, _, _)
RECURSIVE JSONObject(_, _, _)

\* after an element: "," and the next one, or "]"
ArrayAfter(s, j, acc) ==
    IF j > Len(s) THEN Failed
    ELSE IF Char(s, j) = "]" THEN Parsed(JArr(acc), j + 1)
    ELSE IF Char(s, j) = "," THEN JSONArray(s, SkipWhitespace(s, j + 1), acc)
    ELSE Failed

ArrayElement(s, p, acc) ==
    IF IsFailed(p) THEN Failed
    ELSE ArrayAfter(s, SkipWhitespace(s, NextIndex(p)), Append(acc, ParsedValue(p)))

\* json.decoder.JSONArray: i is the index of an element
JSONArray(s, i, acc) == ArrayElement(s, scan_once(s, i), acc)

ObjectAfter(s, j, acc) ==
    IF j > Len(s) THEN Failed
    ELSE IF Char(s, j) = "}" THEN Parsed(JObj(acc), j + 1)
    ELSE IF Char(s, j) = "," THEN JSONObject(s, SkipWhitespace(s, j + 1), acc)
    ELSE Failed

ObjectValue(s, key, p, acc) ==
    IF IsFailed(p) THEN Failed
    ELSE ObjectAfter(s, SkipWhitespace(s, NextIndex(p)),
                     Append(acc, <<key, ParsedValue(p)>>))

ObjectColon(s, k, acc) ==
    IF IsFailed(k) THEN Failed
    ELSE IF SkipWhitespace(s, NextIndex(k)) > Len(s) THEN Failed
    ELSE IF Char(s, SkipWhitespace(s, NextIndex(k))) # ":" THEN Failed
    ELSE ObjectValue(s, Val(ParsedValue(k)),
                     scan_once(s, SkipWhitespace(s, SkipWhitespace(s, NextIndex(k)) + 1)),
                     acc)

\* json.decoder.JSONObject: i is the index of the quote that opens a key
JSONObject(s, i, acc) ==
    IF i > Len(s) \/ Char(s, i) # "\"" THEN Failed
    ELSE ObjectColon(s, scanstring(s, i + 1, ""), acc)

OpenArray(s, j) ==
    IF j <= Len(s) /\ Char(s, j) = "]" THEN Parsed(JArr(<<>>), j + 1)
    ELSE JSONArray(s, j, <<>>)

OpenObject(s, j) ==
    IF j <= Len(s) /\ Char(s, j) = "}" THEN Parsed(JObj(<<>>), j + 1)
    ELSE JSONObject(s, j, <<>>)

scan_once(s, i) ==
    IF i > Len(s) THEN Failed
    ELSE CASE Char(s, i) = "\"" -> scanstring(s, i + 1, "")
           [] Char(s, i) = "{" -> OpenObject(s, SkipWhitespace(s, i + 1))
           [] Char(s, i) = "[" -> OpenArray(s, SkipWhitespace(s, i + 1))
           [] Char(s, i) = "n" -> ScanLiteral(s, i, "null", JNull)
           [] Char(s, i) = "t" -> ScanLiteral(s, i, "true", JBool(TRUE))
           [] Char(s, i) = "f" -> ScanLiteral(s, i, "false", JBool(FALSE))
           [] Char(s, i) = "-" \/ IsDigit(Char(s, i)) -> ScanNumber(s, i)
           [] OTHER -> Failed

LoadsEnd(s, p) ==
    IF IsFailed(p) THEN NotJson
    ELSE IF SkipWhitespace(s, NextIndex(p)) <= Len(s) THEN NotJson
    ELSE ParsedValue(p)

\* json.loads(s): the value, or NotJson where it raises JSONDecodeError
loads(s) == LoadsEnd(s, scan_once(s, SkipWhitespace(s, 1)))


(***************************************************************************)
(* The Slack server (servers/slack/slack_mcp).  An argument is a JSON      *)
(* value (None is JNull); a call of the WebClient is <<api method, keyword *)
(* arguments>>, the keyword arguments being <<name, value>> pairs in the   *)
(* order of the source.  What the WebClient answers is                     *)
(*   <<"slack_response", data>>   the call returned, response.data is data *)
(*   <<"SlackApiError", text>>    it raised SlackApiError, str(e) is text  *)
(*   <<"exception", class>>       it raised anything else                  *)
(***************************************************************************)
SlackResponse(d) == <<"slack_response", d>>
SlackApiError(text) == <<"SlackApiError", text>>
ResponseData(o) == o[2]
ErrorText(o) == o[2]

WebClientCall(api, kwargs) == <<api, kwargs>>
Api(c) == c[1]
Kwargs(c) == c[2]
Kwarg(c, name) == Kwargs(c)[CHOOSE i \in 1..Len(Kwargs(c)) : Kwargs(c)[i][1] = name][2]
KwargNames(c) == [i \in 1..Len(Kwargs(c)) |-> Kwargs(c)[i][1]]

\* min(limit, cap); a limit of None is a TypeError
PyMin(limit, cap) ==
    IF TypeOf(limit) = "num" THEN Ret(JNum(Min(Val(limit), cap))) ELSE Raise("TypeError")

\* the method up to its call of the WebClient, given what min() gave
WithLimit(capped, api, before, after) ==
    IF Kind(capped) = "raise" THEN capped
    ELSE Ret(WebClientCall(api, before \o << <<"limit", Value(capped)>> >> \o after))

\* get_channels with the limit passed on as it came
SlackClient_get_channels_uncapped(limit, cursor, types) ==
    Ret(WebClientCall("conversations_list",
            << <<"types", types>>, <<"exclude_archived", JBool(TRUE)>>,
               <<"limit", limit>>, <<"cursor", cursor>> >>))

\* client.py:53-59
SlackClient_get_channels(limit, cursor, types) ==
    WithLimit(PyMin(limit, 200), "conversations_list",
              << <<"types", types>>, <<"exclude_archived", JBool(TRUE)>> >>,
              << <<"cursor", cursor>> >>)

\* client.py:75-76
SlackClient_post_message(channel_id, text) ==
    Ret(WebClientCall("chat_postMessage",
            << <<"channel", channel_id>>, <<"text", text>> >>))

\* client.py:95-98
SlackClient_schedule_message(channel_id, text, post_at) ==
    Ret(WebClientCall("chat_scheduleMessage",
            << <<"channel", channel_id>>, <<"text", text>>, <<"post_at", post_at>> >>))

\* client.py:115-118
SlackClient_post_reply(channel_id, thread_ts, text) ==
    Ret(WebClientCall("chat_postMessage",
            << <<"channel", channel_id>>, <<"thread_ts", thread_ts>>,
               <<"text", text>> >>))

\* client.py:137-140
SlackClient_add_reaction(channel_id, timestamp, reaction) ==
    Ret(WebClientCall("reactions_add",
            << <<"channel", channel_id>>, <<"timestamp", timestamp>>,
               <<"name", reaction>> >>))

\* client.py:159-162
SlackClient_list_scheduled_messages(channel_id, limit, cursor) ==
    WithLimit(PyMin(limit, 1000), "chat_scheduledMessages_list",
              << <<"channel", channel_id>> >>, << <<"cursor", cursor>> >>)

\* client.py:180-183
SlackClient_delete_scheduled_message(channel_id, scheduled_message_id) ==
    Ret(WebClientCall("chat_deleteScheduledMessage",
            << <<"channel", channel_id>>,
               <<"scheduled_message_id", scheduled_message_id>> >>))

\* client.py:199-202
SlackClient_get_channel_history(channel_id, limit) ==
    Ret(WebClientCall("conversations_history",
            << <<"channel", channel_id>>, <<"limit", limit>> >>))

\* client.py:218-221
SlackClient_get_thread_replies(channel_id, thread_ts) ==
    Ret(WebClientCall("conversations_replies",
            << <<"channel", channel_id>>, <<"ts", thread_ts>> >>))

\* client.py:239-240
SlackClient_get_users(limit, cursor) ==
    WithLimit(PyMin(limit, 200), "users_list", <<>>, << <<"cursor", cursor>> >>)

\* client.py:255-256
SlackClient_get_user_profile(user_id) ==
    Ret(WebClientCall("users_profile_get",
            << <<"user", user_id>>, <<"include_labels", JBool(TRUE)>> >>))

\* an argument the caller left out, and the value its parameter then has
Omitted == <<"omitted", 0>>
Default(arg, value) == IF TypeOf(arg) = "omitted" THEN value ELSE arg

\* the method of that name applied to its arguments in the order of its
\* parameters, with the defaults of its signature (client.py:38-43, 146-148,
\* 189, 227-229)
SlackClient(method, a) ==
    CASE method = "get_channels" ->
            SlackClient_get_channels(Default(a[1], JNum(100)), Default(a[2], JNull),
                                     Default(a[3], JStr("public_channel")))
      [] method = "post_message" -> SlackClient_post_message(a[1], a[2])
      [] method = "schedule_message" -> SlackClient_schedule_message(a[1], a[2], a[3])
      [] method = "post_reply" -> SlackClient_post_reply(a[1], a[2], a[3])
      [] method = "add_reaction" -> SlackClient_add_reaction(a[1], a[2], a[3])
      [] method = "list_scheduled_messages" ->
            SlackClient_list_scheduled_messages(a[1], Default(a[2], JNum(100)),
                                                Default(a[3], JNull))
      [] method = "delete_scheduled_message" ->
            SlackClient_delete_scheduled_message(a[1], a[2])
      [] method = "get_channel_history" ->
            SlackClient_get_channel_history(a[1], Default(a[2], JNum(10)))
      [] method = "get_thread_replies" -> SlackClient_get_thread_replies(a[1], a[2])
      [] method = "get_users" ->
            SlackClient_get_users(Default(a[1], JNum(100)), Default(a[2], JNull))
      [] method = "get_user_profile" -> SlackClient_get_user_profile(a[1])

\* the end of a method with the except clause of _verify_auth: the
\* SlackApiError raised again
api_return_reraise(o) ==
    CASE OutcomeType(o) = "slack_response" -> Ret(ResponseData(o))
      [] OutcomeType(o) = "SlackApiError" -> Raise("SlackApiError")
      [] OTHER -> Raise(ExcClass(o))

\* the end of every method: return response.data, and the except clause
\* (client.py:60-63 and the same lines of the other ten methods)
api_return(o) ==
    CASE OutcomeType(o) = "slack_response" -> Ret(ResponseData(o))
      [] OutcomeType(o) = "SlackApiError" ->
            Ret(JObj(<< <<"ok", JBool(FALSE)>>, <<"error", JStr(ErrorText(o))>> >>))
      [] OTHER -> Raise(ExcClass(o))

\* A call of a SlackClient method is <<method, arguments in the order of its
\* parameters>>.
MethodCall(method, a) == <<method, a>>
Method(m) == m[1]
MethodArgs(m) == m[2]

\* server.py:63-65
slack_list_channels(limit, cursor) ==
    MethodCall("get_channels", <<limit, cursor, JStr("public_channel,private_channel")>>)

\* server.py:80
slack_post_message(channel_id, text) == MethodCall("post_message", <<channel_id, text>>)

\* server.py:95
slack_reply_to_thread(channel_id, thread_ts, text) ==
    MethodCall("post_reply", <<channel_id, thread_ts, text>>)

\* server.py:110
slack_add_reaction(channel_id, timestamp, reaction) ==
    MethodCall("add_reaction", <<channel_id, timestamp, reaction>>)

\* server.py:124
slack_get_channel_history(channel_id, limit) ==
    MethodCall("get_channel_history", <<channel_id, limit>>)

\* server.py:139
slack_get_thread_replies(channel_id, thread_ts) ==
    MethodCall("get_thread_replies", <<channel_id, thread_ts>>)

\* server.py:154
slack_get_users(limit, cursor) == MethodCall("get_users", <<limit, cursor>>)

\* server.py:169
schedule_message(channel_id, text, post_at) ==
    MethodCall("schedule_message", <<channel_id, text, post_at>>)

\* server.py:184-186
list_scheduled_messages(channel_id, limit, cursor) ==
    MethodCall("list_scheduled_messages", <<channel_id, limit, cursor>>)

\* server.py:203-205
delete_scheduled_message(channel_id, scheduled_message_id) ==
    MethodCall("delete_scheduled_message", <<channel_id, scheduled_message_id>>)

\* the tool of that name applied to the fields of its args
SlackTool(tool, a) ==
    CASE tool = "slack_list_channels" -> slack_list_channels(a[1], a[2])
      [] tool = "slack_post_message" -> slack_post_message(a[1], a[2])
      [] tool = "slack_reply_to_thread" -> slack_reply_to_thread(a[1], a[2], a[3])
      [] tool = "slack_add_reaction" -> slack_add_reaction(a[1], a[2], a[3])
      [] tool = "slack_get_channel_history" -> slack_get_channel_history(a[1], a[2])
      [] tool = "slack_get_thread_replies" -> slack_get_thread_replies(a[1], a[2])
      [] tool = "slack_get_users" -> slack_get_users(a[1], a[2])
      [] tool = "schedule_message" -> schedule_message(a[1], a[2], a[3])
      [] tool = "list_scheduled_messages" -> list_scheduled_messages(a[1], a[2], a[3])
      [] tool = "delete_scheduled_message" -> delete_scheduled_message(a[1], a[2])

\* return json.dumps(response), the last line of every tool (server.py:66)
tool_return(response) ==
    IF Kind(response) = "return" THEN Ret(dumps(Value(response))) ELSE response

(***************************************************************************)
(* The arguments and the answers the Slack model draws from.               *)
(***************************************************************************)
ChannelIds == {JStr("C12345"), JStr("invalid-channel")}
MessageTexts == {JStr("Test message"), JStr("say \"hi\"\n")}
MessageTimestamps == {JStr("1234567890.123456")}
Reactions == {JStr("thumbsup")}
PostAts == {JStr("1700000000")}
ScheduledMessageIds == {JStr("Q12345")}
UserIds == {JStr("U12345")}
Cursors == {JNull, JStr("dGVhbTo=")}
Limits == {JNull, JNum(-1), JNum(50), JNum(100), JNum(199), JNum(200), JNum(201),
           JNum(1000), JNum(1001)}

\* the argument tuples of each tool and of each method
SlackToolCalls ==
    ({"slack_list_channels", "slack_get_users"} \X (Limits \X Cursors))
    \cup ({"slack_post_message"} \X (ChannelIds \X MessageTexts))
    \cup ({"slack_reply_to_thread"} \X (ChannelIds \X MessageTimestamps \X MessageTexts))
    \cup ({"slack_add_reaction"} \X (ChannelIds \X MessageTimestamps \X Reactions))
    \cup ({"slack_get_channel_history"} \X (ChannelIds \X Limits))
    \cup ({"slack_get_thread_replies"} \X (ChannelIds \X MessageTimestamps))
    \cup ({"schedule_message"} \X (ChannelIds \X MessageTexts \X PostAts))
    \cup ({"list_scheduled_messages"} \X (ChannelIds \X Limits \X Cursors))
    \cup ({"delete_scheduled_message"} \X (ChannelIds \X ScheduledMessageIds))

ChannelTypes == {JStr("public_channel"), JStr("public_channel,private_channel")}

SlackClientCalls ==
    ({"get_channels"} \X (Limits \X Cursors \X ChannelTypes))
    \cup {<<"get_channels", <<Omitted, Omitted, Omitted>> >>,
          <<"get_users", <<Omitted, Omitted>> >>,
          <<"list_scheduled_messages", <<JStr("C12345"), Omitted, Omitted>> >>,
          <<"get_channel_history", <<JStr("C12345"), Omitted>> >>}
    \cup ({"get_users"} \X (Limits \X Cursors))
    \cup ({"post_message"} \X (ChannelIds \X MessageTexts))
    \cup ({"post_reply"} \X (ChannelIds \X MessageTimestamps \X MessageTexts))
    \cup ({"add_reaction"} \X (ChannelIds \X MessageTimestamps \X Reactions))
    \cup ({"get_channel_history"} \X (ChannelIds \X Limits))
    \cup ({"get_thread_replies"} \X (ChannelIds \X MessageTimestamps))
    \cup ({"schedule_message"} \X (ChannelIds \X MessageTexts \X {JNum(1700000000)}))
    \cup ({"list_scheduled_messages"} \X (ChannelIds \X Limits \X Cursors))
    \cup ({"delete_scheduled_message"} \X (ChannelIds \X ScheduledMessageIds))
    \cup ({"get_user_profile"} \X {<<u>> : u \in UserIds})

SlackDatas == {
    JObj(<< <<"ok", JBool(TRUE)>> >>),
    JObj(<< <<"ok", JBool(TRUE)>>,
            <<"channels", JArr(<< JObj(<< <<"id", JStr("C12345")>>,
                                          <<"name", JStr("general")>>,
                                          <<"is_private", JBool(FALSE)>> >>),
                                  JObj(<< <<"id", JStr("C67890")>>,
                                          <<"name", JStr("random")>> >>) >>)>>,
            <<"response_metadata", JObj(<< <<"next_cursor", JStr("")>> >>)>> >>),
    JObj(<< <<"ok", JBool(TRUE)>>, <<"channel", JStr("C12345")>>,
            <<"ts", JStr("1234567890.123456")>>,
            <<"message", JObj(<< <<"text", JStr("say \"hi\"\n\ta\\b")>>,
                                 <<"edited", JNull>> >>)>> >>),
    JObj(<< <<"ok", JBool(TRUE)>>, <<"members", JArr(<<>>)>>,
            <<"post_at", JNum(1700000000)>>, <<"offset", JNum(-3600)>> >>),
    JObj(<<>>) }

SlackErrorTexts == {
    "Error\nThe server responded with: {'error': 'channel_not_found'}",
    "The request to the Slack API failed. (url: https://slack.com/api/chat.postMessage)\nThe server responded with: {'ok': False, 'error': \"not_in_channel\"}" }

SlackOtherExceptions == {"URLError"}

(***************************************************************************)
(* The Slack state machine: a tool, or a method of SlackClient called      *)
(* directly, from the call to the result.  call is <<layer, name,          *)
(* arguments>>, sent the calls made on the way down: a tool's call of its  *)
(* method, then the method's call of the WebClient.                        *)
(***************************************************************************)
Layer(c) == c[1]
Name(c) == c[2]
Args(c) == c[3]

\* a method of SlackClient up to its call of the WebClient
EnterMethod(log, method, a) ==
    IF Kind(SlackClient(method, a)) = "return"
    THEN Append(log, <<"WebClient", Api(Value(SlackClient(method, a))),
                       Kwargs(Value(SlackClient(method, a)))>>)
    ELSE log

\* a tool up to the WebClient call of its method
CallSlackTool(tool, a) ==
    /\ pc = "idle"
    /\ call' = <<"slack_tool", tool, a>>
    /\ sent' = EnterMethod(<< <<"SlackClient", Method(SlackTool(tool, a)),
                                MethodArgs(SlackTool(tool, a))>> >>,
                           Method(SlackTool(tool, a)), MethodArgs(SlackTool(tool, a)))
    /\ IF Len(sent') = 2
       THEN pc' = "slack_wait" /\ data' = None /\ result' = None
       ELSE /\ pc' = "done"
            /\ data' = SlackClient(Method(SlackTool(tool, a)), MethodArgs(SlackTool(tool, a)))
            /\ result' = data'
    /\ UNCHANGED <<tasks, redirects, outcome, formatted_results>>

\* a method of SlackClient called by a test, up to its WebClient call
CallSlackClient(method, a) ==
    /\ pc = "idle"
    /\ call' = <<"slack_client", method, a>>
    /\ sent' = EnterMethod(<<>>, method, a)
    /\ IF Len(sent') = 1
       THEN pc' = "slack_wait" /\ data' = None /\ result' = None
       ELSE /\ pc' = "done"
            /\ data' = SlackClient(method, a)
            /\ result' = data'
    /\ UNCHANGED <<tasks, redirects, outcome, formatted_results>>

\* the rest of the method and, for a tool, of the tool
FinishSlack(o) ==
    /\ pc = "slack_wait"
    /\ outcome' = o
    /\ data' = api_return(o)
    /\ result' = IF Layer(call) = "slack_tool" THEN tool_return(data') ELSE data'
    /\ pc' = "done"
    /\ UNCHANGED <<tasks, call, sent, redirects, formatted_results>>

\* the WebClient call returns
SlackResponds ==
    /\ pc = "slack_wait"
    /\ \E d \in SlackDatas : FinishSlack(SlackResponse(d))

\* the WebClient call raises
SlackRaises ==
    /\ pc = "slack_wait"
    /\ \/ \E text \in SlackErrorTexts : FinishSlack(SlackApiError(text))
       \/ \E cls \in SlackOtherExceptions : FinishSlack(OtherException(cls))

SlackNext ==
    \/ \E c \in SlackToolCalls : CallSlackTool(c[1], c[2])
    \/ \E c \in SlackClientCalls : CallSlackClient(c[1], c[2])
    \/ SlackResponds
    \/ SlackRaises
    \/ Return

SlackSpec == Init /\ [][SlackNext]_vars


(***************************************************************************)
(* Properties of the Slack server, under SlackSpec.                        *)
(***************************************************************************)
\* the SlackClient method an invocation ran, and the arguments it had
MethodRun == IF Layer(call) = "slack_tool" THEN sent[1][2] ELSE Name(call)
MethodRunArgs == IF Layer(call) = "slack_tool" THEN sent[1][3] ELSE Args(call)

\* the call of the WebClient an invocation made
WebCall == WebClientCall(sent[Len(sent)][2], sent[Len(sent)][3])
MadeWebCall == Len(sent) > 0 /\ sent[Len(sent)][1] = "WebClient"

SlackDone == pc = "done" /\ Layer(call) \in {"slack_tool", "slack_client"}

\* C23: each of the eleven methods of SlackClient returns the data of the
\* response unchanged when the Slack call succeeds, and when the call raises
\* SlackApiError returns a dictionary with 'ok' False and 'error' the text
\* of the error, raising nothing.
C23_DataOrErrorDict ==
    (SlackDone /\ MadeWebCall /\ OutcomeType(outcome) \in {"slack_response", "SlackApiError"})
    => /\ MethodRun \in {"get_channels", "post_message", "schedule_message",
                         "post_reply", "add_reaction", "list_scheduled_messages",
                         "delete_scheduled_message", "get_channel_history",
                         "get_thread_replies", "get_users", "get_user_profile"}
       /\ Kind(data) = "return"
       /\ OutcomeType(outcome) = "slack_response" => Value(data) = ResponseData(outcome)
       /\ OutcomeType(outcome) = "SlackApiError" =>
             /\ TypeOf(Value(data)) = "obj"
             /\ KwargNames(<<"", Val(Value(data))>>) = <<"ok", "error">>
             /\ Get(Value(data), "ok") = JBool(FALSE)
             /\ Get(Value(data), "error") = JStr(ErrorText(outcome))

\* C23 witness: post_message on a channel that does not exist
C23_Witness ==
    /\ SlackDone /\ Layer(call) = "slack_client"
    /\ MethodRun = "post_message"
    /\ Args(call)[1] = JStr("invalid-channel")
    /\ OutcomeType(outcome) = "SlackApiError"
    /\ Get(Value(data), "ok") = JBool(FALSE)
    /\ IsSubstring("Error", Val(Get(Value(data), "error")))


\* the method each tool is for
CorrespondingMethod(tool) ==
    CASE tool = "slack_list_channels" -> "get_channels"
      [] tool = "slack_post_message" -> "post_message"
      [] tool = "slack_reply_to_thread" -> "post_reply"
      [] tool = "slack_add_reaction" -> "add_reaction"
      [] tool = "slack_get_channel_history" -> "get_channel_history"
      [] tool = "slack_get_thread_replies" -> "get_thread_replies"
      [] tool = "slack_get_users" -> "get_users"
      [] tool = "schedule_message" -> "schedule_message"
      [] tool = "list_scheduled_messages" -> "list_scheduled_messages"
      [] tool = "delete_scheduled_message" -> "delete_scheduled_message"

\* C24: a Slack tool calls the method it is for exactly once, with the
\* values of its arguments (slack_list_channels adds the types
\* "public_channel,private_channel"), and returns the JSON text of what the
\* method returned: parsing the text gives back a value equal to it, for a
\* response and for an error dictionary alike.
C24_ToolReturnsJsonOfResponse ==
    (SlackDone /\ Layer(call) = "slack_tool") =>
        /\ Cardinality({i \in 1..Len(sent) : sent[i][1] = "SlackClient"}) = 1
        /\ sent[1][1] = "SlackClient"
        /\ sent[1][2] = CorrespondingMethod(Name(call))
        /\ sent[1][3] = IF Name(call) = "slack_list_channels"
                        THEN Args(call) \o <<JStr("public_channel,private_channel")>>
                        ELSE Args(call)
        /\ Kind(data) = "return" =>
              /\ Kind(result) = "return"
              /\ loads(Value(result)) = Value(data)

\* C24 witness: slack_post_message whose method returned an error
\* dictionary, the text of the error holding quotes and a line break
C24_Witness ==
    /\ SlackDone /\ Layer(call) = "slack_tool"
    /\ Name(call) = "slack_post_message"
    /\ OutcomeType(outcome) = "SlackApiError"
    /\ IsSubstring("\\nThe server responded with: ", Value(result))
    /\ Get(loads(Value(result)), "ok") = JBool(FALSE)


\* the limit a method was called with, its default when the caller left it out
LimitGiven ==
    CASE MethodRun \in {"get_channels", "get_users"} -> Default(MethodRunArgs[1], JNum(100))
      [] OTHER -> Default(MethodRunArgs[2], JNum(100))

\* C25: get_channels and get_users forward min(limit, 200) and
\* list_scheduled_messages forwards min(limit, 1000): a limit at or below
\* the cap is forwarded as it is (100 when none is given), a larger one is
\* replaced by the cap; get_channels always sends exclude_archived=True and
\* passes cursor and types on unchanged.
C25_PageSizeCapped ==
    (/\ Layer(call) \in {"slack_tool", "slack_client"}
     /\ MadeWebCall
     /\ MethodRun \in {"get_channels", "get_users", "list_scheduled_messages"})
    => /\ TypeOf(LimitGiven) = "num"
       /\ Kwarg(WebCall, "limit") =
             IF MethodRun = "list_scheduled_messages"
             THEN IF Val(LimitGiven) <= 1000 THEN LimitGiven ELSE JNum(1000)
             ELSE IF Val(LimitGiven) <= 200 THEN LimitGiven ELSE JNum(200)
       /\ MethodRun = "get_channels" =>
             /\ Api(WebCall) = "conversations_list"
             /\ Kwarg(WebCall, "exclude_archived") = JBool(TRUE)
             /\ Kwarg(WebCall, "cursor") = Default(MethodRunArgs[2], JNull)
             /\ Kwarg(WebCall, "types") = Default(MethodRunArgs[3], JStr("public_channel"))

\* C25 witness: get_channels asked for 201 channels of both types from a
\* cursor on
C25_Witness ==
    /\ Layer(call) = "slack_client" /\ MadeWebCall
    /\ MethodRun = "get_channels"
    /\ Args(call) = <<JNum(201), JStr("dGVhbTo="), JStr("public_channel,private_channel")>>
    /\ Kwargs(WebCall) = << <<"types", JStr("public_channel,private_channel")>>,
                            <<"exclude_archived", JBool(TRUE)>>,
                            <<"limit", JNum(200)>>,
                            <<"cursor", JStr("dGVhbTo=")>> >>


(***************************************************************************)
(* The Harvest tools, in their two variants: src/api (core.py,             *)
(* time_entries.py) and servers/harvest/src/__main__.py.  A call of        *)
(* requests.request is <<method, url, headers, json, params>>, a dict      *)
(* being a JObj and None JNull.  What requests.request and the two lines   *)
(* after it meet is                                                        *)
(*   <<"response", status, reason, body>>   a response came back           *)
(*   <<"RequestException", class, text>>    no response: str(e) is text    *)
(*   <<"exception", class>>                 anything else                  *)
(***************************************************************************)
HARVEST_ACCOUNT_ID == "HARVEST_ACCOUNT_ID"
HARVEST_ACCESS_TOKEN == "HARVEST_ACCESS_TOKEN"
USER_AGENT == "Smart Harvest Tool"

\* core.py:30-37 and __main__.py:37-47
HarvestUrl(endpoint) == "https://api.harvestapp.com/v2" \o endpoint
HarvestHeaders ==
    << <<"Authorization", "Bearer " \o HARVEST_ACCESS_TOKEN>>,
       <<"Harvest-Account-Id", HARVEST_ACCOUNT_ID>>,
       <<"User-Agent", USER_AGENT>>,
       <<"Content-Type", "application/json">> >>

HttpMethod(request) == request[1]
RequestUrl(request) == request[2]
RequestJson(request) == request[4]
RequestParams(request) == request[5]

\* x if x else None
OrNone(x) == IF Falsy(x) THEN JNull ELSE x

\* core.py:40-46: the call of requests.request
api_harvest_api_request(method, endpoint, d, params) ==
    <<method, HarvestUrl(endpoint), HarvestHeaders, OrNone(d), OrNone(params)>>

\* __main__.py:50-52: the call of requests.request
servers_harvest_api_request(method, endpoint, d, params) ==
    <<method, HarvestUrl(endpoint), HarvestHeaders, d, params>>

RequestException(cls, text) == <<"RequestException", cls, text>>
ExceptionText(o) == o[3]

\* str(e) of the HTTPError that response.raise_for_status() raises
HTTPErrorText(status, reason, url) ==
    ToString(status)
        \o (IF status < 500 THEN " Client Error: " ELSE " Server Error: ")
        \o reason \o " for url: " \o url

\* core.py:50-56: the message of the error response in place of str(e)
ErrorMessage(error_json, text) ==
    CASE TypeOf(error_json) = "JSONDecodeError" -> Ret(JStr(text))
      [] TypeOf(error_json) = "obj" ->
            IF HasKey(error_json, "message")
            THEN Ret(Get(error_json, "message")) ELSE Ret(JStr(text))
      [] TypeOf(error_json) \in {"arr", "str"} ->
            IF Contains("message", error_json) THEN Raise("TypeError")
            ELSE Ret(JStr(text))
      [] OTHER -> Raise("TypeError")

ApiErrorDict(message) ==
    IF Kind(message) = "raise" THEN message
    ELSE Ret(JObj(<< <<"error", Value(message)>> >>))

\* core.py:47-57: harvest_api_request after requests.request
api_harvest_api_request_tail(o, url) ==
    CASE OutcomeType(o) = "response" ->
            IF Status(o) >= 400
            THEN ApiErrorDict(ErrorMessage(BodyJson(o),
                                           HTTPErrorText(Status(o), Reason(o), url)))
            ELSE Ret(BodyJson(o))
      [] OutcomeType(o) = "RequestException" -> Ret(JObj(<< <<"error", JStr(ExceptionText(o))>> >>))
      [] OTHER -> Raise(ExcClass(o))

ServersErrorDict(text) ==
    JObj(<< <<"success", JBool(FALSE)>>, <<"error", JStr(text)>> >>)

\* __main__.py:53-56: harvest_api_request after requests.request
servers_harvest_api_request_tail(o, url) ==
    CASE OutcomeType(o) = "response" ->
            IF Status(o) >= 400
            THEN Ret(ServersErrorDict(HTTPErrorText(Status(o), Reason(o), url)))
            ELSE Ret(BodyJson(o))
      [] OutcomeType(o) = "RequestException" -> Ret(ServersErrorDict(ExceptionText(o)))
      [] OTHER -> Raise(ExcClass(o))

\* The arguments of list_time_entries, in the order of its parameters.
TimeEntryParameters ==
    <<"user_id", "client_id", "project_id", "task_id", "external_reference_id",
      "is_billed", "is_running", "updated_since", "from_date", "to_date",
      "page", "per_page">>

IsNotNone(pair) == TypeOf(pair[2]) # "null"

\* time_entries.py:41-44: the filters that are not None under the names of
\* the parameters, then page and per_page
api_list_time_entries(a) ==
    JObj(SelectSeq([i \in 1..10 |-> <<TimeEntryParameters[i], a[i]>>], IsNotNone)
             \o << <<"page", a[11]>>, <<"per_page", a[12]>> >>)

\* __main__.py:94-109
servers_list_time_entries(a) ==
    JObj(<< <<"user_id", a[1]>>, <<"client_id", a[2]>>, <<"project_id", a[3]>>,
            <<"task_id", a[4]>>, <<"external_reference_id", a[5]>>,
            <<"is_billed", a[6]>>, <<"is_running", a[7]>>,
            <<"updated_since", a[8]>>, <<"from", a[9]>>, <<"to", a[10]>>,
            <<"page", a[11]>>, <<"per_page", a[12]>> >>)

\* the query parameters requests puts in the URL: those whose value is not
\* None
QueryParameters(params) ==
    IF TypeOf(params) = "null" THEN {}
    ELSE {Val(params)[i] : i \in {j \in 1..Len(Val(params)) : IsNotNone(Val(params)[j])}}

(***************************************************************************)
(* The arguments and the answers the Harvest model draws from.             *)
(***************************************************************************)
MaxFilters == 2     \* most filters a caller of list_time_entries sets at once

FilterValues ==
    <<JNum(7), JNum(8), JNum(9), JNum(10), JStr("ext-1"), JBool(FALSE), JBool(TRUE),
      JStr("2024-01-01T00:00:00Z"), JStr("2024-01-01"), JStr("2024-01-31")>>

Pages == {JNum(1), JNum(3)}
PerPages == {JNum(2000), JNum(50)}

TimeEntryArgs ==
    {[i \in 1..12 |-> IF i <= 10 THEN (IF i \in set THEN FilterValues[i] ELSE JNull)
                      ELSE IF i = 11 THEN page ELSE per_page] :
        set \in {s \in SUBSET (1..10) : Cardinality(s) <= MaxFilters},
        page \in Pages, per_page \in PerPages}

\* direct calls of harvest_api_request: <<method, endpoint, data, params>>
DirectRequests == {
    <<"GET", "/test_endpoint", JNull, JNull>>,
    <<"POST", "/time_entries", JObj(<< <<"project_id", JNum(9)>>, <<"hours", JNum(2)>> >>), JNull>>,
    <<"DELETE", "/time_entries/5", JObj(<<>>), JObj(<<>>)>> }

HarvestStatusCodes == {200, 201, 304, 401, 404, 422, 500, 503}

HarvestBodies == <<
    JsonBody(JObj(<< <<"data", JStr("test_data")>> >>)),
    JsonBody(JObj(<< <<"time_entries", JArr(<<>>)>>, <<"page", JNum(1)>> >>)),
    JsonBody(JObj(<< <<"message", JStr("Time entry not found")>> >>)),
    JsonBody(JObj(<< <<"error", JStr("invalid_token")>> >>)),
    JsonBody(JArr(<<>>)),
    JsonBody(JArr(<<JStr("message")>>)),
    JsonBody(JStr("no message here")),
    JsonBody(JNull),
    JsonBody(JNum(5)),
    <<"<html>Bad Gateway</html>", NotJson>> >>

HarvestRequestExceptions == {
    RequestException("ConnectionError", "Max retries exceeded with url: /v2/time_entries"),
    RequestException("Timeout", "Read timed out.") }

(***************************************************************************)
(* The Harvest state machine.  call is <<"harvest", variant, function,     *)
(* arguments>>, sent the calls of requests.request.                        *)
(***************************************************************************)
Variants == {"src/api", "servers/harvest"}
Variant(c) == c[2]
Function(c) == c[3]
HarvestArgs(c) == c[4]

harvest_api_request(variant, method, endpoint, d, params) ==
    IF variant = "src/api"
    THEN api_harvest_api_request(method, endpoint, d, params)
    ELSE servers_harvest_api_request(method, endpoint, d, params)

harvest_api_request_tail(variant, o, url) ==
    IF variant = "src/api"
    THEN api_harvest_api_request_tail(o, url)
    ELSE servers_harvest_api_request_tail(o, url)

list_time_entries(variant, a) ==
    IF variant = "src/api" THEN api_list_time_entries(a) ELSE servers_list_time_entries(a)

\* list_time_entries up to requests.request
CallListTimeEntries(variant, a) ==
    /\ pc = "idle"
    /\ call' = <<"harvest", variant, "list_time_entries", a>>
    /\ sent' = <<harvest_api_request(variant, "GET", "/time_entries", JNull,
                                     list_time_entries(variant, a))>>
    /\ pc' = "harvest_wait"
    /\ UNCHANGED <<tasks, redirects, outcome, data, formatted_results, result>>

\* harvest_api_request called by itself, up to requests.request
CallHarvestApiRequest(variant, r) ==
    /\ pc = "idle"
    /\ call' = <<"harvest", variant, "harvest_api_request", r>>
    /\ sent' = <<harvest_api_request(variant, r[1], r[2], r[3], r[4])>>
    /\ pc' = "harvest_wait"
    /\ UNCHANGED <<tasks, redirects, outcome, data, formatted_results, result>>

\* the rest of harvest_api_request; list_time_entries returns what it gave
FinishHarvest(o) ==
    /\ pc = "harvest_wait"
    /\ outcome' = o
    /\ data' = harvest_api_request_tail(Variant(call), o, RequestUrl(sent[1]))
    /\ result' = data'
    /\ pc' = "done"
    /\ UNCHANGED <<tasks, call, sent, redirects, formatted_results>>

\* a response comes back
HarvestResponds ==
    /\ pc = "harvest_wait"
    /\ \E status \in HarvestStatusCodes, reason \in Reasons, b \in 1..Len(HarvestBodies) :
          /\ status < 400 => TypeOf(HarvestBodies[b][2]) # "JSONDecodeError"
          /\ FinishHarvest(Response(status, reason, HarvestBodies[b]))

\* requests.request raises
HarvestRaises ==
    /\ pc = "harvest_wait"
    /\ \/ \E e \in HarvestRequestExceptions : FinishHarvest(e)
       \/ \E cls \in OtherExceptions : FinishHarvest(OtherException(cls))

HarvestNext ==
    \/ \E variant \in Variants, a \in TimeEntryArgs : CallListTimeEntries(variant, a)
    \/ \E variant \in Variants, r \in DirectRequests : CallHarvestApiRequest(variant, r)
    \/ HarvestResponds
    \/ HarvestRaises
    \/ Return

HarvestSpec == Init /\ [][HarvestNext]_vars


(***************************************************************************)
(* Properties of the Harvest tools.                                        *)
(***************************************************************************)
HarvestDone == pc = "done" /\ Layer(call) = "harvest"

\* requests.request or raise_for_status raised a RequestException
RequestFailed ==
    \/ OutcomeType(outcome) = "RequestException"
    \/ OutcomeType(outcome) = "response" /\ Status(outcome) >= 400

\* the error response carries a JSON object with a 'message'
UpstreamMessage ==
    /\ OutcomeType(outcome) = "response"
    /\ TypeOf(BodyJson(outcome)) = "obj"
    /\ HasKey(BodyJson(outcome), "message")

\* str(e) of the exception the call met
RequestFailureText ==
    IF OutcomeType(outcome) = "response"
    THEN HTTPErrorText(Status(outcome), Reason(outcome), RequestUrl(sent[1]))
    ELSE ExceptionText(outcome)

ReturnsErrorDict ==
    /\ Kind(result) = "return"
    /\ TypeOf(Value(result)) = "obj"
    /\ HasKey(Value(result), "error")

\* C26: harvest_api_request makes exactly one HTTP request per call; it
\* returns the parsed JSON body of a successful response; when the request
\* fails with a RequestException it returns a dict describing the error and
\* does not raise; in the src/api variant the 'error' of that dict is the
\* 'message' of the upstream JSON when the error response has one and the
\* text of the exception otherwise.
C26_OneRequestDictOnFailure ==
    HarvestDone =>
        /\ Len(sent) = 1
        /\ (OutcomeType(outcome) = "response" /\ ~RequestFailed)
              => result = Ret(BodyJson(outcome))
        /\ RequestFailed => ReturnsErrorDict
        /\ (RequestFailed /\ Variant(call) = "src/api" /\ ReturnsErrorDict)
              => Get(Value(result), "error") =
                    (IF UpstreamMessage THEN Get(BodyJson(outcome), "message")
                     ELSE JStr(RequestFailureText))


\* the list_time_entries call in progress or finished
ListingTimeEntries ==
    /\ pc \in {"harvest_wait", "done"}
    /\ Layer(call) = "harvest"
    /\ Function(call) = "list_time_entries"

\* the key a parameter of list_time_entries is to be sent under
QueryKey(i) ==
    CASE TimeEntryParameters[i] = "from_date" -> "from"
      [] TimeEntryParameters[i] = "to_date" -> "to"
      [] OTHER -> TimeEntryParameters[i]

\* every supplied argument under its key, the unset ones left out
SuppliedParameters(a) ==
    {<<QueryKey(i), a[i]>> : i \in {j \in 1..12 : TypeOf(a[j]) # "null"}}

SentQuery(variant, a) ==
    QueryParameters(RequestParams(
        harvest_api_request(variant, "GET", "/time_entries", JNull,
                            list_time_entries(variant, a))))

\* C30: the two implementations of list_time_entries send the same set of
\* non-null query parameters to GET /time_entries: every supplied filter
\* under the same key in both, from_date and to_date under 'from' and 'to',
\* page and per_page always, and no unset filter.
C30_SameQueryParameters ==
    ListingTimeEntries =>
        /\ HttpMethod(sent[1]) = "GET"
        /\ RequestUrl(sent[1]) = HarvestUrl("/time_entries")
        /\ QueryParameters(RequestParams(sent[1])) = SuppliedParameters(HarvestArgs(call))
        /\ \A variant \in Variants :
              SentQuery(variant, HarvestArgs(call)) = QueryParameters(RequestParams(sent[1]))
        /\ {"page", "per_page"} \subseteq
              {p[1] : p \in QueryParameters(RequestParams(sent[1]))}


(***************************************************************************)
(* Several invocations on one event loop.  Each call of a tool is a        *)
(* coroutine with a frame of its own: <<pc, call, sent, outcome, result,   *)
(* client>>, pc being "wait" at the await on client.get and "done" after   *)
(* the return or the raise.  The loop runs one coroutine at a time and     *)
(* switches only at the awaits, so a step is a whole head or a whole tail  *)
(* of one invocation.  The module level holds BRAVE_API_KEY,               *)
(* BRAVE_API_BASE and HEADERS and nothing that is assigned after import.   *)
(***************************************************************************)
MaxTasks == 2       \* invocations in flight at once

Frame(p, c, log, o, r, client) == <<p, c, log, o, r, client>>
FramePc(f) == f[1]
FrameCall(f) == f[2]
FrameSent(f) == f[3]
FrameOutcome(f) == f[4]
FrameResult(f) == f[5]
FrameClient(f) == f[6]

\* the head of the tool called (main.py:54-61 with 189-192, main.py:116-125)
ToolHead(c) ==
    IF Tool(c) = "search"
    THEN brave_web_search_head(QueryOf(c), CountOf(c), OffsetOf(c))
    ELSE fetch_website_head(UrlOf(c))

\* the call of a tool up to its await: async with httpx.AsyncClient() opens
\* the client of this invocation (main.py:190, main.py:121) once the
\* arguments have passed their checks
Invoked(c) ==
    IF ToolHead(c)[1]
    THEN Frame("wait", c, client_get(<<>>, ToolHead(c)[2]), None, None, "open")
    ELSE Frame("done", c, <<>>, None, ToolHead(c)[2], "unopened")

\* brave_web_search after make_brave_request (main.py:61-95)
SearchResult(d, offset) ==
    IF Kind(d) = "raise" THEN d ELSE brave_web_search_tail(Value(d), offset)[1]

\* what the tool hands back once its client.get is answered with o
Answered(f, o) ==
    IF Tool(FrameCall(f)) = "search"
    THEN SearchResult(make_brave_request(o), OffsetOf(FrameCall(f)))
    ELSE fetch_website_tail(o, FrameSent(f)[Len(FrameSent(f))])

\* the locals of a tool kept at module level: every invocation of the tool
\* reads those of the latest invocation still in flight
Locals_shared(frames, i) ==
    frames[CHOOSE j \in 1..Len(frames) :
              /\ Tool(FrameCall(frames[j])) = Tool(FrameCall(frames[i]))
              /\ FramePc(frames[j]) = "wait"
              /\ \A k \in (j + 1)..Len(frames) :
                    \/ Tool(FrameCall(frames[k])) # Tool(FrameCall(frames[i]))
                    \/ FramePc(frames[k]) # "wait"]

\* the parameters and local variables of invocation i are those of its own
\* frame (main.py:32-95, 99-167, 170-239 assign no global)
Locals(frames, i) == frames[i]

\* leaving the async with block, by return or by exception, closes the
\* client before any except clause runs (main.py:190-203, main.py:121-154)
aexit(client) == "closed"

ConcurrentCalls == {
    <<"search", "a b", 1, 0>>,
    <<"search", "a b", 1, 1>>,
    <<"search", "", 1, 0>>,
    <<"fetch", "https://a.io/p">>,
    <<"fetch", "ftp://a.io">> }

ConcurrentSearchAnswers ==
    {Response(200, "", HitsBody(choice)) : choice \in [1..1 -> 1..Len(HitVariants)]}
        \cup {Response(429, "", Bodies[1]), Response(200, "", Bodies[1])}

ConcurrentFetchAnswers == {
    Response(200, "", <<"doc", Documents[1]>>),
    Response(404, "Oops", <<"doc", Documents[2]>>),
    Response(200, "", <<"fault", "RecursionError">>) }

ConcurrentFailures == {
    TimeoutException(TRUE), TimeoutException(FALSE),
    RequestError("ConnectError"), OtherException("InvalidURL") }

AnswersTo(c) ==
    ConcurrentFailures
        \cup (IF Tool(c) = "search" THEN ConcurrentSearchAnswers
              ELSE ConcurrentFetchAnswers)

\* a caller invokes a tool while others are at their awaits
Invoke(c) ==
    /\ Len(tasks) < MaxTasks
    /\ tasks' = Append(tasks, Invoked(c))
    /\ UNCHANGED <<pc, call, sent, redirects, outcome, data, formatted_results, result>>

\* the client.get of invocation i is answered and its coroutine runs to
\* its end
Answer(i, o) ==
    /\ i \in 1..Len(tasks)
    /\ FramePc(tasks[i]) = "wait"
    /\ o \in AnswersTo(FrameCall(tasks[i]))
    /\ tasks' = [tasks EXCEPT ![i] =
                    Frame("done", FrameCall(@), FrameSent(@), o,
                          Answered(Locals(tasks, i), o), aexit(FrameClient(@)))]
    /\ UNCHANGED <<pc, call, sent, redirects, outcome, data, formatted_results, result>>

\* the result of invocation i is handed to its caller
Complete(i) ==
    /\ i \in 1..Len(tasks)
    /\ FramePc(tasks[i]) = "done"
    /\ tasks' = SubSeq(tasks, 1, i - 1) \o SubSeq(tasks, i + 1, Len(tasks))
    /\ UNCHANGED <<pc, call, sent, redirects, outcome, data, formatted_results, result>>

AllAnswers == ConcurrentFailures \cup ConcurrentSearchAnswers \cup ConcurrentFetchAnswers

ConcurrentNext ==
    \/ \E c \in ConcurrentCalls : Invoke(c)
    \/ \E i \in 1..MaxTasks, o \in AllAnswers : Answer(i, o)
    \/ \E i \in 1..MaxTasks : Complete(i)

ConcurrentSpec == Init /\ [][ConcurrentNext]_vars


(***************************************************************************)
(* Properties of invocations in flight together.                           *)
(***************************************************************************)
\* the frame an invocation ends with when it is the only one on the loop
RunAlone(c, o) ==
    IF FramePc(Invoked(c)) = "done" THEN Invoked(c)
    ELSE Frame("done", c, FrameSent(Invoked(c)), o, Answered(Invoked(c), o), "closed")

TimeoutFailure(f) ==
    /\ Kind(FrameResult(f)) = "return"
    /\ IsSubstring("timed out", Value(FrameResult(f)))

\* the client of an invocation is open exactly while its coroutine is
\* inside the async with block
ClientScoped(f) ==
    /\ FramePc(f) = "wait" <=> FrameClient(f) = "open"
    /\ FramePc(f) = "done" =>
          FrameClient(f) = (IF FrameOutcome(f) = None THEN "unopened" ELSE "closed")

====
